---- MODULE Spec2Model ----
(***************************************************************************)
(* A model of the pixelation tool: the colour transform library, the       *)
(* block pipeline of pixelateImage and exportImage, the promise each call  *)
(* returns, the preview effect of PixelationWindow and the batch export    *)
(* of ExportPanel.                                                         *)
(*                                                                         *)
(* Numbers.  The engine computes on JavaScript numbers.  Every value it    *)
(* can produce from byte inputs is an integer, except the output of        *)
(* applyPosterize, which is a multiple of 256/levels.  A channel value     *)
(* inside the effect stage is therefore held in fixed point, as an         *)
(* integer count of 1/Q units, Q = 105 = lcm(3, 5, 7): every 256/levels    *)
(* with levels in 2..8 is a whole number of such units.  Buffers hold      *)
(* plain bytes.                                                            *)
(***************************************************************************)
EXTENDS Integers, Sequences, FiniteSets, TLC

(***************************************************************************)
(* Program constants                                                       *)
(***************************************************************************)
\* The largest value of a channel of the Uint8ClampedArray of an ImageData.
ByteMax == 255
\* reducePalette: "if (paletteSize >= 256) return [r, g, b]", and the 256 of
\* "256 / Math.cbrt(paletteSize)" and of applyPosterize's "256 / levels".
Levels256 == 256
\* The palette slider: min="2".
MinPaletteSize == 2
\* The posterize slider: min="2" max="8".
MinPosterizeLevels == 2
MaxPosterizeLevels == 8
\* Fixed-point denominator of the effect stage (see the header).
Q == 105

(***************************************************************************)
(* Arithmetic of JavaScript numbers on the values the engine meets         *)
(***************************************************************************)
\* Math.floor(n / d), d > 0.
Floor(n, d) == n \div d

\* Math.round(n / d), d > 0: the nearest integer, halves towards +infinity.
Round(n, d) == (2 * n + d) \div (2 * d)

\* Math.min(a, b) and Math.max(a, b).
Min(a, b) == IF a <= b THEN a ELSE b
Max(a, b) == IF a >= b THEN a ELSE b

\* A byte read from a buffer, as a fixed-point number of the effect stage.
Fx(c) == c * Q

\* The store of number n/Q into a Uint8ClampedArray: clamped to 0..255 and
\* rounded to the nearest integer, halves to the even neighbour.
ToUint8Clamped(n) ==
  IF n <= 0 THEN 0
  ELSE IF n >= ByteMax * Q THEN ByteMax
  ELSE LET lo == n \div Q
           twice == 2 * (n - lo * Q)
       IN IF twice < Q THEN lo
          ELSE IF twice > Q THEN lo + 1
          ELSE IF lo % 2 = 0 THEN lo ELSE lo + 1

(***************************************************************************)
(* Colour transform library                                                *)
(***************************************************************************)
\* The colour effects are applied to the bytes the sampler returns (whole
\* numbers) and return numbers in fixed point.

\* The weighted sum r * 0.299 + g * 0.587 + b * 0.114, times 1000.
Luma1000(r, g, b) == 299 * r + 587 * g + 114 * b

\* applyGrayscale: gray = Math.round(r * 0.299 + g * 0.587 + b * 0.114).
applyGrayscale(r, g, b) ==
  LET gray == Fx(Round(Luma1000(r, g, b), 1000))
  IN <<gray, gray, gray>>

\* Number.parseInt(color.slice(1), 16) of "#rrggbb", the colour given as the
\* sequence of its six hexadecimal digits.
RECURSIVE parseHex(_)
parseHex(digits) ==
  IF digits = <<>> THEN 0
  ELSE 16 * parseHex(SubSeq(digits, 1, Len(digits) - 1)) + digits[Len(digits)]

\* (c >> shift) & 255.
ShiftMask(c, shift) == (c \div (2 ^ shift)) % 256

\* A duotone channel that truncates the interpolated value instead of rounding.
duotoneChannelTruncating(c1, c2, luma1000) ==
  Fx(Floor(c1 * ByteMax * 1000 + (c2 - c1) * luma1000, ByteMax * 1000))

\* One output channel of applyDuotone: Math.round(c1 + (c2 - c1) * luminance),
\* luminance = gray / 255 with gray the unrounded weighted sum.
duotoneChannel(c1, c2, luma1000) ==
  Fx(Round(c1 * ByteMax * 1000 + (c2 - c1) * luma1000, ByteMax * 1000))

\* applyDuotone.
applyDuotone(r, g, b, color1, color2) ==
  LET luma == Luma1000(r, g, b)
      c1 == parseHex(color1)
      c2 == parseHex(color2)
  IN <<duotoneChannel(ShiftMask(c1, 16), ShiftMask(c2, 16), luma),
       duotoneChannel(ShiftMask(c1, 8), ShiftMask(c2, 8), luma),
       duotoneChannel(ShiftMask(c1, 0), ShiftMask(c2, 0), luma)>>

\* One channel of applyPosterize, step = 256 / levels:
\*   Math.round((Math.floor(c / step) * step + step / 2) / step) * step.
\* With k = Math.floor(c / step) the argument of Math.round is k + 1/2, which
\* rounds to k + 1; in IEEE double arithmetic the quotient falls just below
\* k + 1/2 for levels = 7, k = 5 alone (levels in 2..8), and rounds to 5.
posterizeChannel(c, levels) ==
  LET k == Floor(c * levels, Levels256)
      rounded == IF levels = 7 /\ k = 5 THEN k ELSE k + 1
  IN Min(Fx(ByteMax), rounded * ((Levels256 * Q) \div levels))

\* applyPosterize.
applyPosterize(r, g, b, levels) ==
  <<posterizeChannel(r, levels), posterizeChannel(g, levels),
    posterizeChannel(b, levels)>>

\* Math.ceil(256 / Math.cbrt(paletteSize)) is the least integer s with
\* s * cbrt(paletteSize) >= 256, that is with s^3 * paletteSize >= 256^3.
\* To stay within 32-bit integers the test is made on the quotient:
\* s^3 * p >= 256^3  iff  p >= ceil(256^3 / s^3).
paletteStepReaches(s, paletteSize) ==
  \/ s * s * s >= 16777216
  \/ paletteSize >= ((16777216 + s * s * s - 1) \div (s * s * s))

\* The step of every palette size up to 512, computed once.
paletteStepTable ==
  [p \in 1..(2 * Levels256) |->
     CHOOSE s \in 1..Levels256 :
       paletteStepReaches(s, p) /\ (s = 1 \/ ~paletteStepReaches(s - 1, p))]

paletteStep(paletteSize) == paletteStepTable[paletteSize]

\* A quantiser that snaps to the upper edge of the step, as applyPosterize
\* does: (Math.floor(c / step) + 1) * step. Applied to its own result it moves
\* one step further.
paletteChannelUpperEdge(c, step) == Fx((Floor(c, Q * step) + 1) * step)

\* One channel of reducePalette, on a number in fixed point:
\* Math.round(c / step) * step.
paletteChannel(c, step) == Fx(Round(c, Q * step) * step)

\* reducePalette with the guard "paletteSize > 256": a palette of 256 is
\* quantised with the step 41.
reducePaletteAbove256(r, g, b, paletteSize) ==
  IF paletteSize > Levels256 THEN <<r, g, b>>
  ELSE LET step == paletteStep(paletteSize)
       IN <<paletteChannel(r, step), paletteChannel(g, step), paletteChannel(b, step)>>

\* reducePalette.
reducePalette(r, g, b, paletteSize) ==
  IF paletteSize >= Levels256 THEN <<r, g, b>>
  ELSE LET step == paletteStep(paletteSize)
       IN <<paletteChannel(r, step), paletteChannel(g, step), paletteChannel(b, step)>>

(***************************************************************************)
(* Pixel buffers                                                           *)
(*                                                                         *)
(* A bitmap is [width, height, data]: data maps the indices                *)
(* 0 .. 4 * width * height - 1 of a Uint8ClampedArray to bytes, row-major, *)
(* four per pixel.  An optional setting that is undefined (or falsy) is    *)
(* the empty sequence for a colour and 0 for posterizeLevels.              *)
(***************************************************************************)
\* if (settings.duotoneColor1 && ...): a non-empty string.
TruthyColor(color) == color # <<>>

\* if (... && settings.posterizeLevels): a number other than 0.
TruthyNumber(n) == n # 0

\* The pixel (r, g, b, a) of a bitmap at (x, y).
PixelAt(bmp, x, y) ==
  LET idx == (y * bmp.width + x) * 4
  IN <<bmp.data[idx], bmp.data[idx + 1], bmp.data[idx + 2], bmp.data[idx + 3]>>

\* The sum of f over the finite set S of integers.
RECURSIVE SumOver(_, _)
SumOver(f, S) ==
  IF S = {} THEN 0
  ELSE LET i == CHOOSE j \in S : TRUE IN f[i] + SumOver(f, S \ {i})

(***************************************************************************)
(* pixelateImage: the block loop                                           *)
(***************************************************************************)
\* Inner loops without the test "x + dx < width": a block on the right edge
\* runs on into the next row.
blockIndicesRowWrap(width, height, x, y, blockSize) ==
  {i \in {((y + dy) * width + (x + dx)) * 4 :
            dx \in 0..(blockSize - 1),
            dy \in {d \in 0..(blockSize - 1) : y + d < height}} :
     i < width * height * 4}

\* The pixels the inner loops "for dy < blockSize && y + dy < height",
\* "for dx < blockSize && x + dx < width" visit, as indices of their red byte.
blockIndices(width, height, x, y, blockSize) ==
  {((y + dy) * width + (x + dx)) * 4 :
     dx \in {d \in 0..(blockSize - 1) : x + d < width},
     dy \in {d \in 0..(blockSize - 1) : y + d < height}}

\* A sampler that averages the block whatever settings.sampling says.
sampleBlockAveraging(data, width, height, x, y, settings) ==
  LET cells == blockIndices(width, height, x, y, settings.pixelSize)
      count == Cardinality(cells)
      total(k) == SumOver([i \in cells |-> data[i + k]], cells)
  IN <<Round(total(0), count), Round(total(1), count),
       Round(total(2), count), Round(total(3), count)>>

\* A sampler that honours sampling for square blocks only and takes the
\* top-left pixel for every other shape.
sampleBlockByShape(data, width, height, x, y, settings) ==
  IF settings.sampling = "nearest" \/ settings.shape # "square"
  THEN LET idx == (y * width + x) * 4
       IN <<data[idx], data[idx + 1], data[idx + 2], data[idx + 3]>>
  ELSE LET cells == blockIndices(width, height, x, y, settings.pixelSize)
           count == Cardinality(cells)
           total(k) == SumOver([i \in cells |-> data[i + k]], cells)
       IN <<Round(total(0), count), Round(total(1), count),
            Round(total(2), count), Round(total(3), count)>>

\* A sampler whose average truncates instead of rounding.
sampleBlockTruncating(data, width, height, x, y, settings) ==
  IF settings.sampling = "nearest"
  THEN LET idx == (y * width + x) * 4
       IN <<data[idx], data[idx + 1], data[idx + 2], data[idx + 3]>>
  ELSE LET cells == blockIndices(width, height, x, y, settings.pixelSize)
           count == Cardinality(cells)
           total(k) == SumOver([i \in cells |-> data[i + k]], cells)
       IN <<Floor(total(0), count), Floor(total(1), count),
            Floor(total(2), count), Floor(total(3), count)>>

\* "Sample color": the block's representative (r, g, b, a).
sampleBlock(data, width, height, x, y, settings) ==
  IF settings.sampling = "nearest"
  THEN LET idx == (y * width + x) * 4
       IN <<data[idx], data[idx + 1], data[idx + 2], data[idx + 3]>>
  ELSE LET cells == blockIndices(width, height, x, y, settings.pixelSize)
           count == Cardinality(cells)
           total(k) == SumOver([i \in cells |-> data[i + k]], cells)
       IN <<Round(total(0), count), Round(total(1), count),
            Round(total(2), count), Round(total(3), count)>>

\* An effect stage that fills in unset fields with the values the controls
\* show for them ("#000000", "#ffffff", 4 levels) instead of skipping the effect.
colorEffectOfDefaults(r, g, b, settings) ==
  IF settings.colorEffect = "grayscale" THEN applyGrayscale(r, g, b)
  ELSE IF settings.colorEffect = "duotone"
  THEN applyDuotone(r, g, b,
                    IF TruthyColor(settings.duotoneColor1) THEN settings.duotoneColor1
                    ELSE <<0, 0, 0, 0, 0, 0>>,
                    IF TruthyColor(settings.duotoneColor2) THEN settings.duotoneColor2
                    ELSE <<15, 15, 15, 15, 15, 15>>)
  ELSE IF settings.colorEffect = "posterize"
  THEN applyPosterize(r, g, b,
                      IF TruthyNumber(settings.posterizeLevels)
                      THEN settings.posterizeLevels ELSE 4)
  ELSE <<Fx(r), Fx(g), Fx(b)>>

\* "Apply color effects": the effect selected by settings.colorEffect.
colorEffectOf(r, g, b, settings) ==
  IF settings.colorEffect = "grayscale" THEN applyGrayscale(r, g, b)
  ELSE IF settings.colorEffect = "duotone" /\ TruthyColor(settings.duotoneColor1)
          /\ TruthyColor(settings.duotoneColor2)
  THEN applyDuotone(r, g, b, settings.duotoneColor1, settings.duotoneColor2)
  ELSE IF settings.colorEffect = "posterize" /\ TruthyNumber(settings.posterizeLevels)
  THEN applyPosterize(r, g, b, settings.posterizeLevels)
  ELSE <<Fx(r), Fx(g), Fx(b)>>

\* A colour pipeline that reduces the palette only when no effect is selected.
finalColorEffectOrPalette(r, g, b, settings) ==
  IF settings.colorEffect = "normal"
  THEN reducePalette(Fx(r), Fx(g), Fx(b), settings.paletteSize)
  ELSE colorEffectOf(r, g, b, settings)

\* "Apply color effects" and "Apply palette reduction": (finalR, finalG, finalB).
finalColor(r, g, b, settings) ==
  LET fx == colorEffectOf(r, g, b, settings)
  IN reducePalette(fx[1], fx[2], fx[3], settings.paletteSize)

\* A write-back that stores the block's colour at its origin pixel only.
drawBlockOriginOnly(data, width, height, x, y, blockSize, final, a) ==
  [i \in DOMAIN data |->
     IF i - (i % 4) = (y * width + x) * 4
     THEN IF i % 4 = 3 THEN ToUint8Clamped(Fx(a))
          ELSE ToUint8Clamped(final[(i % 4) + 1])
     ELSE data[i]]

\* A write-back that stores alpha 255 instead of the sampled alpha.
drawBlockOpaque(data, width, height, x, y, blockSize, final, a) ==
  LET cells == blockIndices(width, height, x, y, blockSize)
  IN [i \in DOMAIN data |->
        IF (i - (i % 4)) \in cells
        THEN IF i % 4 = 3 THEN ByteMax
             ELSE ToUint8Clamped(final[(i % 4) + 1])
        ELSE data[i]]

\* A write-back that runs one pixel past the block, into the blocks to its
\* right and below, which the loop has yet to sample.
drawBlockSpill(data, width, height, x, y, blockSize, final, a) ==
  LET cells == blockIndices(width, height, x, y, blockSize + 1)
  IN [i \in DOMAIN data |->
        IF (i - (i % 4)) \in cells
        THEN IF i % 4 = 3 THEN ToUint8Clamped(Fx(a))
             ELSE ToUint8Clamped(final[(i % 4) + 1])
        ELSE data[i]]

\* "Draw the pixel block": the stores data[idx .. idx + 3] over the block.
drawBlock(data, width, height, x, y, blockSize, final, a) ==
  LET cells == blockIndices(width, height, x, y, blockSize)
  IN [i \in DOMAIN data |->
        IF (i - (i % 4)) \in cells
        THEN IF i % 4 = 3 THEN ToUint8Clamped(Fx(a))
             ELSE ToUint8Clamped(final[(i % 4) + 1])
        ELSE data[i]]

\* One iteration of the body of the x loop, on the block whose origin is (x, y).
pixelateBlock(data, width, height, x, y, settings) ==
  LET s == sampleBlock(data, width, height, x, y, settings)
      final == finalColor(s[1], s[2], s[3], settings)
  IN drawBlock(data, width, height, x, y, settings.pixelSize, final, s[4])

\* "for (y = 0; y < height; y += blockSize) for (x = 0; x < width; x += blockSize)"
\* from the iteration at (x, y) on, writing data in place.
RECURSIVE pixelateLoop(_, _, _, _, _, _)
pixelateLoop(data, width, height, x, y, settings) ==
  IF y >= height THEN data
  ELSE IF x >= width
  THEN pixelateLoop(data, width, height, 0, y + settings.pixelSize, settings)
  ELSE pixelateLoop(pixelateBlock(data, width, height, x, y, settings),
                    width, height, x + settings.pixelSize, y, settings)

(***************************************************************************)
(* exportImage: its own copy of the block loop ("Apply pixelation")        *)
(***************************************************************************)
\* The pixels of the block at (x, y) inside the temp canvas.
exportBlockIndices(width, height, x, y, blockSize) ==
  {((y + dy) * width + (x + dx)) * 4 :
     dx \in {d \in 0..(blockSize - 1) : x + d < width},
     dy \in {d \in 0..(blockSize - 1) : y + d < height}}

\* The sampling branch of exportImage.
exportSampleBlock(data, width, height, x, y, settings) ==
  IF settings.sampling = "nearest"
  THEN LET idx == (y * width + x) * 4
       IN <<data[idx], data[idx + 1], data[idx + 2], data[idx + 3]>>
  ELSE LET cells == exportBlockIndices(width, height, x, y, settings.pixelSize)
           count == Cardinality(cells)
           total(k) == SumOver([i \in cells |-> data[i + k]], cells)
       IN <<Round(total(0), count), Round(total(1), count),
            Round(total(2), count), Round(total(3), count)>>

\* An export loop whose colour stage leaves out the palette reduction.
exportFinalColorNoPalette(r, g, b, settings) == colorEffectOf(r, g, b, settings)

\* The effect branch and the palette reduction of exportImage.
exportFinalColor(r, g, b, settings) ==
  LET fx == IF settings.colorEffect = "grayscale" THEN applyGrayscale(r, g, b)
            ELSE IF settings.colorEffect = "duotone"
                    /\ TruthyColor(settings.duotoneColor1)
                    /\ TruthyColor(settings.duotoneColor2)
            THEN applyDuotone(r, g, b, settings.duotoneColor1, settings.duotoneColor2)
            ELSE IF settings.colorEffect = "posterize"
                    /\ TruthyNumber(settings.posterizeLevels)
            THEN applyPosterize(r, g, b, settings.posterizeLevels)
            ELSE <<Fx(r), Fx(g), Fx(b)>>
  IN reducePalette(fx[1], fx[2], fx[3], settings.paletteSize)

\* One iteration of the x loop of exportImage, write-back included.
exportBlock(data, width, height, x, y, settings) ==
  LET s == exportSampleBlock(data, width, height, x, y, settings)
      final == exportFinalColor(s[1], s[2], s[3], settings)
      cells == exportBlockIndices(width, height, x, y, settings.pixelSize)
  IN [i \in DOMAIN data |->
        IF (i - (i % 4)) \in cells
        THEN IF i % 4 = 3 THEN ToUint8Clamped(Fx(s[4]))
             ELSE ToUint8Clamped(final[(i % 4) + 1])
        ELSE data[i]]

\* The y and x loops of exportImage from the iteration at (x, y) on.
RECURSIVE exportLoop(_, _, _, _, _, _)
exportLoop(data, width, height, x, y, settings) ==
  IF y >= height THEN data
  ELSE IF x >= width
  THEN exportLoop(data, width, height, 0, y + settings.pixelSize, settings)
  ELSE exportLoop(exportBlock(data, width, height, x, y, settings),
                  width, height, x + settings.pixelSize, y, settings)

(***************************************************************************)
(* The 2D canvas                                                           *)
(*                                                                         *)
(* A canvas is [width, height, data, text]: its bitmap and the text runs   *)
(* filled into it.  The rasterisation is the host's: a stroke of           *)
(* lineWidth 1 along an integer coordinate k covers the half of pixel row  *)
(* (or column) k - 1 and the half of row k next to it; a covered pixel is  *)
(* composited source-over with the stroke colour at half its alpha.        *)
(***************************************************************************)
\* document.createElement("canvas") sized width x height: transparent black.
blankCanvas(width, height) ==
  [width |-> width, height |-> height,
   data |-> [i \in 0..(4 * width * height - 1) |-> 0], text |-> <<>>]

\* "rgba(0, 0, 0, 0.2)" at half coverage, source-over one pixel (r, g, b, a):
\* alpha 0.1 of black. The result channel i (0..3) of the pixel.
strokeOver(px, i) ==
  LET outA10 == ByteMax + 9 * px[4]
  IN IF i = 3 THEN Round(outA10, 10)
     ELSE Round(9 * px[i + 1] * px[4], outA10)

\* ctx.stroke() of the path (0, y) -> (width, y).
strokeRow(data, width, height, y) ==
  [i \in DOMAIN data |->
     LET row == (i \div 4) \div width
         base == i - (i % 4)
     IN IF row = y \/ row = y - 1
        THEN strokeOver(<<data[base], data[base + 1], data[base + 2], data[base + 3]>>,
                        i % 4)
        ELSE data[i]]

\* ctx.stroke() of the path (x, 0) -> (x, height).
strokeColumn(data, width, height, x) ==
  [i \in DOMAIN data |->
     LET col == (i \div 4) % width
         base == i - (i % 4)
     IN IF col = x \/ col = x - 1
        THEN strokeOver(<<data[base], data[base + 1], data[base + 2], data[base + 3]>>,
                        i % 4)
        ELSE data[i]]

\* A row loop with the test "y < canvas.height": no line on the far edge.
RECURSIVE gridRowsBelowEdge(_, _, _, _, _)
gridRowsBelowEdge(data, width, height, y, blockSize) ==
  IF y >= height THEN data
  ELSE gridRowsBelowEdge(strokeRow(data, width, height, y), width, height,
                         y + blockSize, blockSize)

\* "for (y = 0; y <= canvas.height; y += blockSize)" from y on.
RECURSIVE gridRows(_, _, _, _, _)
gridRows(data, width, height, y, blockSize) ==
  IF y > height THEN data
  ELSE gridRows(strokeRow(data, width, height, y), width, height, y + blockSize, blockSize)

\* "for (x = 0; x <= canvas.width; x += blockSize)" from x on.
RECURSIVE gridColumns(_, _, _, _, _)
gridColumns(data, width, height, x, blockSize) ==
  IF x > width THEN data
  ELSE gridColumns(strokeColumn(data, width, height, x), width, height, x + blockSize,
                   blockSize)

\* pixelateImage, "Draw grid overlay if enabled".
drawGrid(data, width, height, settings) ==
  IF settings.showGrid
  THEN gridColumns(gridRows(data, width, height, 0, settings.pixelSize),
                   width, height, 0, settings.pixelSize)
  ELSE data

\* exportImage, "if (settings.showGrid)": the same strokes on the temp canvas.
exportDrawGrid(data, width, height, settings) ==
  IF settings.showGrid
  THEN LET rows == gridRows(data, width, height, 0, settings.pixelSize)
       IN gridColumns(rows, width, height, 0, settings.pixelSize)
  ELSE data

\* ctx.drawImage(src, 0, 0, src.width, src.height, 0, 0, width, height) into a
\* blank canvas with imageSmoothingEnabled = false: every destination pixel
\* takes the source pixel under its centre (x + 1/2, y + 1/2).
drawImageScaled(src, width, height) ==
  [i \in 0..(4 * width * height - 1) |->
     LET x == (i \div 4) % width
         y == (i \div 4) \div width
         sx == Floor((2 * x + 1) * src.width, 2 * width)
         sy == Floor((2 * y + 1) * src.height, 2 * height)
     IN src.data[(sy * src.width + sx) * 4 + (i % 4)]]

\* ctx.drawImage(src, 0, 0) into a blank canvas of width x height: the source
\* pixels at their own coordinates, the rest of the canvas left transparent.
drawImageAt00(src, width, height) ==
  [i \in 0..(4 * width * height - 1) |->
     LET x == (i \div 4) % width
         y == (i \div 4) \div width
     IN IF x < src.width /\ y < src.height
        THEN src.data[(y * src.width + x) * 4 + (i % 4)]
        ELSE 0]

\* A final draw that takes the else branch whatever the scale: the temp
\* canvas lands unscaled in the top-left corner of the export canvas.
scaleUpUnscaled(temp, width, height, scale) == drawImageAt00(temp, width, height)

\* exportImage, "Scale up if needed".
scaleUp(temp, width, height, scale) ==
  IF scale > 1 THEN drawImageScaled(temp, width, height)
  ELSE drawImageAt00(temp, width, height)

\* A watermark whose font size does not grow with the canvas.
addWatermarkFixedFont(width, height) ==
  [text |-> "pix.krixnx.xyz", fontSize |-> 12,
   fillStyle |-> "rgba(0, 0, 0, 0.15)", textAlign |-> "right",
   textBaseline |-> "bottom",
   x2 |-> 2 * width - 2 * 8, y2 |-> 2 * height - 2 * 8]

\* addWatermark: the text run it fills. Coordinates are in half pixels, as
\* padding = Math.max(8, fontSize / 2) may end in .5.
addWatermark(width, height) ==
  LET fontSize == Max(12, Floor(width, 50))
      padding2 == Max(2 * 8, fontSize)
  IN [text |-> "pix.krixnx.xyz", fontSize |-> fontSize,
      fillStyle |-> "rgba(0, 0, 0, 0.15)", textAlign |-> "right",
      textBaseline |-> "bottom",
      x2 |-> 2 * width - padding2, y2 |-> 2 * height - padding2]

\* canvas.toDataURL("image/png"): lossless, so the URL stands for the canvas.
toDataURL(canvas) ==
  [mime |-> "image/png", width |-> canvas.width, height |-> canvas.height,
   data |-> canvas.data, text |-> canvas.text]

(***************************************************************************)
(* Promises                                                                *)
(***************************************************************************)
\* A promise is [state, value, error]; value is a data URL when fulfilled.
NoValue == [mime |-> "none"]

pendingPromise == [state |-> "pending", value |-> NoValue, error |-> ""]

\* resolve(value) and reject(new Error(error)): the first call settles the
\* promise, every later call is ignored.
resolvePromise(p, value) ==
  IF p.state = "pending"
  THEN [state |-> "fulfilled", value |-> value, error |-> ""]
  ELSE p

rejectPromise(p, error) ==
  IF p.state = "pending"
  THEN [state |-> "rejected", value |-> NoValue, error |-> error]
  ELSE p

(***************************************************************************)
(* Bounds of the model and the inputs drawn within them                    *)
(***************************************************************************)
MaxWidth == 3
MaxHeight == 2
MaxPattern == 1
MaxPixelSize == 2
MaxScale == 2

\* The (r, g, b, a) values the source images are made of.
Colours ==
  <<<<255, 255, 255, 255>>, <<0, 0, 0, 255>>, <<200, 30, 90, 128>>, <<10, 200, 30, 0>>>>

\* The source image of size width x height with colour pattern p.
imageOf(width, height, p) ==
  [width |-> width, height |-> height,
   data |-> [i \in 0..(4 * width * height - 1) |->
               LET x == (i \div 4) % width
                   y == (i \div 4) \div width
                   c == (p + x * (1 + (p % 3)) + y * (1 + (p \div 3))) % Len(Colours)
               IN Colours[c + 1][(i % 4) + 1]]]

Images ==
  {imageOf(w, h, p) : w \in 1..MaxWidth, h \in 1..MaxHeight, p \in 0..MaxPattern}

\* "#1a1a2e" and "#ff006e", the duotone colours of the preset "Lo-Fi Poster".
Hex1a1a2e == <<1, 10, 1, 10, 2, 14>>
Hexff006e == <<15, 15, 0, 0, 6, 14>>

\* colorEffect with the optional fields it reads, set or unset.
EffectChoices ==
  {[colorEffect |-> "normal", duotoneColor1 |-> <<>>, duotoneColor2 |-> <<>>,
    posterizeLevels |-> 0],
   [colorEffect |-> "grayscale", duotoneColor1 |-> <<>>, duotoneColor2 |-> <<>>,
    posterizeLevels |-> 0],
   [colorEffect |-> "duotone", duotoneColor1 |-> Hex1a1a2e, duotoneColor2 |-> Hexff006e,
    posterizeLevels |-> 0],
   [colorEffect |-> "duotone", duotoneColor1 |-> Hex1a1a2e, duotoneColor2 |-> <<>>,
    posterizeLevels |-> 0],
   [colorEffect |-> "posterize", duotoneColor1 |-> <<>>, duotoneColor2 |-> <<>>,
    posterizeLevels |-> 4],
   [colorEffect |-> "posterize", duotoneColor1 |-> <<>>, duotoneColor2 |-> <<>>,
    posterizeLevels |-> 0]}

\* Palette sizes of the built-in presets: no reduction, and a step of 64.
PaletteChoices == {Levels256, 64}

ShapeChoices == {"square", "hex"}

settingsOf(pixelSize, shape, sampling, effect, paletteSize, showGrid) ==
  [pixelSize |-> pixelSize, shape |-> shape, sampling |-> sampling,
   colorEffect |-> effect.colorEffect, paletteSize |-> paletteSize,
   showGrid |-> showGrid, duotoneColor1 |-> effect.duotoneColor1,
   duotoneColor2 |-> effect.duotoneColor2, posterizeLevels |-> effect.posterizeLevels]

SettingsChoices ==
  {settingsOf(ps, sh, sm, fx, pal, grid) :
     ps \in 1..MaxPixelSize, sh \in ShapeChoices, sm \in {"averaged", "nearest"},
     fx \in EffectChoices, pal \in PaletteChoices, grid \in BOOLEAN}

(***************************************************************************)
(* State                                                                   *)
(***************************************************************************)
VARIABLES
  \* One pixelateImage or exportImage call at a time, stage by stage.
  file,          \* the pixels of the image file imgSrc names
  source,        \* the decoded image the calls draw from
  pc,            \* the stage the current call has reached
  callKind,      \* "pixelateImage" or "exportImage"
  callSettings,  \* its settings argument
  callScale,     \* its scale argument
  data,          \* imageData.data
  canvas,        \* canvas
  tempCanvas,    \* tempCanvas (exportImage)
  promise,       \* the promise the call returned
  resolveCalls,  \* calls of resolve made by the current call
  rejectCalls,   \* calls of reject made by the current call
  loads,         \* assignments to img.src made by the current call
  stageLog,      \* the stages the current call has run, in order
  earlier,       \* the calls that have returned, oldest first (where recorded)
  \* PixelationWindow.
  imageData,     \* the imageData prop: the uploaded image, or noImage for null
  settings,      \* the settings state
  pixelatedSrc,  \* the pixelatedSrc state: the displayed preview
  isProcessing,  \* the isProcessing state
  calls,         \* the pixelateImage calls the effect has made, oldest first
  \* ExportPanel, handleBatchExport.
  batchPc,        \* where the handler stands
  batchIndex,     \* the index into scales of the current iteration
  exportProgress, \* the exportProgress state
  exportedFiles,  \* the exportedFiles state
  toasts,         \* the toasts added, oldest first
  downloads,      \* the scales of the files handed to the browser
  attempted,      \* the scales exportImage was called with, in order
  failed,         \* the scales whose exportImage call rejected, in order
  \* The colour library on its own.
  colorIn,        \* an (r, g, b) input, in fixed point
  colorPalette,   \* a paletteSize
  colorOut,       \* the results of successive applications to colorIn
  colorStored,    \* the bytes a buffer holds after each application
  \* The block loop of one pixelateImage or exportImage call, block by block.
  loopKind,       \* "pixelateImage" or "exportImage"
  loopImage,      \* the pixels getImageData returned, before the loop
  loopSettings,   \* settings
  loopData,       \* data, written in place
  loopX,          \* x of the x loop
  loopY,          \* y of the y loop
  loopPc,         \* "y-test", "x-test" or "done"
  loopLog,        \* one record for every block handled, in order
  \* The colour effects on their own.
  fxIn,           \* an (r, g, b) input, in bytes
  fxColors,       \* <<color1, color2>> of applyDuotone
  fxLevels,       \* levels of applyPosterize
  fxGray,         \* <<>>, or <<the result of applyGrayscale>>
  fxDuo,          \* <<>>, or <<the result of applyDuotone>>
  fxPost,         \* <<>>, or <<the result of applyPosterize>>
  \* addWatermark on its own.
  markWidth,      \* img.width
  markHeight,     \* img.height
  markScale,      \* scale
  markRun,        \* <<>>, or <<the text run addWatermark filled>>
  \* PixelControlsAdvanced: the debounced pixel size.
  debounceTimer,  \* debounceTimerRef.current: the pending timer, or NoTimer
  \* The custom presets.
  presetStorage,   \* localStorage["pixel-presets"], parsed
  controlsPresets, \* the customPresets state of PixelControlsAdvanced
  browserPresets,  \* the customPresets state of PresetBrowser
  presetsKept      \* how often each preset was saved and not deleted since

engineVars ==
  <<file, source, pc, callKind, callSettings, callScale, data, canvas, tempCanvas,
    promise, resolveCalls, rejectCalls, loads, stageLog, earlier>>

previewVars == <<imageData, settings, pixelatedSrc, isProcessing, calls>>

batchVars ==
  <<batchPc, batchIndex, exportProgress, exportedFiles, toasts, downloads, attempted,
    failed>>

colorVars == <<colorIn, colorPalette, colorOut, colorStored>>

loopVars ==
  <<loopKind, loopImage, loopSettings, loopData, loopX, loopY, loopPc, loopLog>>

fxVars == <<fxIn, fxColors, fxLevels, fxGray, fxDuo, fxPost>>

markVars == <<markWidth, markHeight, markScale, markRun>>

debounceVars == <<debounceTimer>>

presetVars == <<presetStorage, controlsPresets, browserPresets, presetsKept>>

panelVars == <<markVars, debounceVars, presetVars>>

vars == <<engineVars, previewVars, batchVars, colorVars, loopVars, fxVars, panelVars>>

\* What a step of one component leaves alone.
EngineOnly == UNCHANGED <<previewVars, batchVars, colorVars, loopVars, fxVars,
  panelVars>>

(***************************************************************************)
(* The engine: pixelateImage and exportImage, one call at a time           *)
(***************************************************************************)
noCanvas == blankCanvas(0, 0)

\* A loop that wrote through to the decoded image: what the image would hold
\* if data aliased its pixels.
retainedSourceAliased(img, written) == [img EXCEPT !.data = written]

\* The decoded image after the block loop has written data: getImageData
\* returned a copy, so the stores into data do not reach the image.
retainedSource(img, written) == img

\* A catch block that swallows the exception and leaves the promise pending.
catchHandlerSwallow(p, error) == p

\* "catch (error) { reject(error) }".
catchHandler(p, error) == rejectPromise(p, error)

EngineInit ==
  /\ file \in Images
  /\ source = file
  /\ pc = "idle"
  /\ callKind = "none"
  /\ callSettings = CHOOSE s \in SettingsChoices : TRUE
  /\ callScale = 1
  /\ data = noCanvas.data
  /\ canvas = noCanvas
  /\ tempCanvas = noCanvas
  /\ promise = pendingPromise
  /\ resolveCalls = 0
  /\ rejectCalls = 0
  /\ loads = 0
  /\ stageLog = <<>>
  /\ earlier = <<>>

\* The executor of the promise up to "img.src = imgSrc".
startCall(kind, s, sc) ==
  /\ pc = "idle"
  /\ pc' = "loading"
  /\ callKind' = kind
  /\ callSettings' = s
  /\ callScale' = sc
  /\ data' = noCanvas.data
  /\ canvas' = noCanvas
  /\ tempCanvas' = noCanvas
  /\ promise' = pendingPromise
  /\ resolveCalls' = 0
  /\ rejectCalls' = 0
  /\ loads' = 1
  /\ stageLog' = <<>>
  /\ UNCHANGED <<file, source, earlier>>
  /\ EngineOnly

\* pixelateImage(imgSrc, settings).
CallPixelateImage ==
  /\ pc = "idle"
  /\ \E s \in SettingsChoices : startCall("pixelateImage", s, 1)

\* exportImage(imgSrc, settings, scale).
CallExportImage ==
  /\ pc = "idle"
  /\ \E s \in SettingsChoices, sc \in 1..MaxScale : startCall("exportImage", s, sc)

\* img.onerror.
ImgOnerror ==
  /\ pc = "loading"
  /\ promise' = rejectPromise(promise, "Failed to load image")
  /\ rejectCalls' = rejectCalls + 1
  /\ pc' = "settled"
  /\ UNCHANGED <<file, source, callKind, callSettings, callScale, data, canvas,
                 tempCanvas, resolveCalls, loads, stageLog, earlier>>
  /\ EngineOnly

\* The messages of the "if (!ctx)" and "if (!tempCtx)" rejections of a call.
contextErrors(kind) ==
  IF kind = "pixelateImage" THEN {"Could not get canvas context"}
  ELSE {"Could not get canvas context", "Could not get temp canvas context"}

\* img.onload with getContext returning null: reject and return.
OnloadNoContext ==
  /\ pc = "loading"
  /\ \E error \in contextErrors(callKind) : promise' = rejectPromise(promise, error)
  /\ rejectCalls' = rejectCalls + 1
  /\ pc' = "settled"
  /\ UNCHANGED <<file, source, callKind, callSettings, callScale, data, canvas,
                 tempCanvas, resolveCalls, loads, stageLog, earlier>>
  /\ EngineOnly

\* An exception thrown inside the try block of onload, caught by its catch.
OnloadThrows ==
  /\ pc \in {"decoded", "pixelated", "gridded", "scaled", "watermarked"}
  /\ promise' = catchHandler(promise, "exception")
  /\ rejectCalls' = rejectCalls + 1
  /\ pc' = "settled"
  /\ UNCHANGED <<file, source, callKind, callSettings, callScale, data, canvas,
                 tempCanvas, resolveCalls, loads, stageLog, earlier>>
  /\ EngineOnly

\* pixelateImage, onload: size the canvas, drawImage, getImageData.
PixelateDecode ==
  /\ pc = "loading" /\ callKind = "pixelateImage"
  /\ canvas' = [blankCanvas(source.width, source.height) EXCEPT
                  !.data = drawImageAt00(source, source.width, source.height)]
  /\ data' = canvas'.data
  /\ pc' = "decoded"
  /\ stageLog' = Append(stageLog, "decode")
  /\ UNCHANGED <<file, source, callKind, callSettings, callScale, tempCanvas,
                 promise, resolveCalls, rejectCalls, loads, earlier>>
  /\ EngineOnly

\* pixelateImage, "Apply pixel effect" and ctx.putImageData.
PixelateBlocks ==
  /\ pc = "decoded" /\ callKind = "pixelateImage"
  /\ data' = pixelateLoop(data, canvas.width, canvas.height, 0, 0, callSettings)
  /\ canvas' = [canvas EXCEPT !.data = data']
  /\ source' = retainedSource(source, data')
  /\ pc' = "pixelated"
  /\ stageLog' = Append(stageLog, "blocks")
  /\ UNCHANGED <<file, callKind, callSettings, callScale, tempCanvas, promise,
                 resolveCalls, rejectCalls, loads, earlier>>
  /\ EngineOnly

\* pixelateImage, "Draw grid overlay if enabled".
PixelateGrid ==
  /\ pc = "pixelated" /\ callKind = "pixelateImage"
  /\ canvas' = [canvas EXCEPT
                  !.data = drawGrid(canvas.data, canvas.width, canvas.height, callSettings)]
  /\ pc' = "gridded"
  /\ stageLog' = IF callSettings.showGrid THEN Append(stageLog, "grid") ELSE stageLog
  /\ UNCHANGED <<file, source, callKind, callSettings, callScale, data, tempCanvas,
                 promise, resolveCalls, rejectCalls, loads, earlier>>
  /\ EngineOnly

\* pixelateImage, resolve(canvas.toDataURL("image/png")).
PixelateResolve ==
  /\ pc = "gridded" /\ callKind = "pixelateImage"
  /\ promise' = resolvePromise(promise, toDataURL(canvas))
  /\ resolveCalls' = resolveCalls + 1
  /\ pc' = "settled"
  /\ stageLog' = Append(stageLog, "encode")
  /\ UNCHANGED <<file, source, callKind, callSettings, callScale, data, canvas,
                 tempCanvas, rejectCalls, loads, earlier>>
  /\ EngineOnly

\* exportImage, onload: size canvas and tempCanvas, drawImage, getImageData.
ExportDecode ==
  /\ pc = "loading" /\ callKind = "exportImage"
  /\ canvas' = blankCanvas(source.width * callScale, source.height * callScale)
  /\ tempCanvas' = [blankCanvas(source.width, source.height) EXCEPT
                      !.data = drawImageAt00(source, source.width, source.height)]
  /\ data' = tempCanvas'.data
  /\ pc' = "decoded"
  /\ stageLog' = Append(stageLog, "decode")
  /\ UNCHANGED <<file, source, callKind, callSettings, callScale, promise,
                 resolveCalls, rejectCalls, loads, earlier>>
  /\ EngineOnly

\* exportImage, "Apply pixelation" and tempCtx.putImageData.
ExportBlocks ==
  /\ pc = "decoded" /\ callKind = "exportImage"
  /\ data' = exportLoop(data, tempCanvas.width, tempCanvas.height, 0, 0, callSettings)
  /\ tempCanvas' = [tempCanvas EXCEPT !.data = data']
  /\ source' = retainedSource(source, data')
  /\ pc' = "pixelated"
  /\ stageLog' = Append(stageLog, "blocks")
  /\ UNCHANGED <<file, callKind, callSettings, callScale, canvas, promise,
                 resolveCalls, rejectCalls, loads, earlier>>
  /\ EngineOnly

\* exportImage, the grid overlay on the temp canvas.
ExportGrid ==
  /\ pc = "pixelated" /\ callKind = "exportImage"
  /\ tempCanvas' = [tempCanvas EXCEPT
                      !.data = exportDrawGrid(tempCanvas.data, tempCanvas.width,
                                              tempCanvas.height, callSettings)]
  /\ pc' = "gridded"
  /\ stageLog' = IF callSettings.showGrid THEN Append(stageLog, "grid") ELSE stageLog
  /\ UNCHANGED <<file, source, callKind, callSettings, callScale, data, canvas,
                 promise, resolveCalls, rejectCalls, loads, earlier>>
  /\ EngineOnly

\* exportImage, "Scale up if needed".
ExportScale ==
  /\ pc = "gridded" /\ callKind = "exportImage"
  /\ canvas' = [canvas EXCEPT
                  !.data = scaleUp(tempCanvas, canvas.width, canvas.height, callScale)]
  /\ pc' = "scaled"
  /\ stageLog' = Append(stageLog, "scale")
  /\ UNCHANGED <<file, source, callKind, callSettings, callScale, data, tempCanvas,
                 promise, resolveCalls, rejectCalls, loads, earlier>>
  /\ EngineOnly

\* An export that stamps the watermark before "Scale up if needed".
ExportWatermarkBeforeScale ==
  /\ pc = "gridded" /\ callKind = "exportImage" /\ canvas.text = <<>>
  /\ canvas' = [canvas EXCEPT
                  !.text = Append(canvas.text, addWatermark(canvas.width, canvas.height))]
  /\ pc' = "gridded"
  /\ stageLog' = Append(stageLog, "watermark")
  /\ UNCHANGED <<file, source, callKind, callSettings, callScale, data, tempCanvas,
                 promise, resolveCalls, rejectCalls, loads, earlier>>
  /\ EngineOnly

\* exportImage, addWatermark(ctx, canvas.width, canvas.height).
ExportWatermark ==
  /\ pc = "scaled" /\ callKind = "exportImage"
  /\ canvas' = [canvas EXCEPT
                  !.text = Append(canvas.text, addWatermark(canvas.width, canvas.height))]
  /\ pc' = "watermarked"
  /\ stageLog' = Append(stageLog, "watermark")
  /\ UNCHANGED <<file, source, callKind, callSettings, callScale, data, tempCanvas,
                 promise, resolveCalls, rejectCalls, loads, earlier>>
  /\ EngineOnly

\* exportImage, resolve(canvas.toDataURL("image/png")).
ExportResolve ==
  /\ pc = "watermarked" /\ callKind = "exportImage"
  /\ promise' = resolvePromise(promise, toDataURL(canvas))
  /\ resolveCalls' = resolveCalls + 1
  /\ pc' = "settled"
  /\ stageLog' = Append(stageLog, "encode")
  /\ UNCHANGED <<file, source, callKind, callSettings, callScale, data, canvas,
                 tempCanvas, rejectCalls, loads, earlier>>
  /\ EngineOnly

\* The caller has taken the outcome of the settled promise; the call's canvases
\* and buffers are garbage.
returnCall ==
  /\ pc = "settled"
  /\ pc' = "idle"
  /\ callKind' = "none"
  /\ callSettings' = CHOOSE s \in SettingsChoices : TRUE
  /\ callScale' = 1
  /\ data' = noCanvas.data
  /\ canvas' = noCanvas
  /\ tempCanvas' = noCanvas
  /\ promise' = pendingPromise
  /\ resolveCalls' = 0
  /\ rejectCalls' = 0
  /\ loads' = 0
  /\ stageLog' = <<>>
  /\ UNCHANGED <<file, source>>
  /\ EngineOnly

CallReturns == returnCall /\ UNCHANGED earlier

(***************************************************************************)
(* The pipeline as one function of its arguments                           *)
(***************************************************************************)
\* What pixelateImage(img, settings) resolves with: the stages of onload in
\* order, each stage applied to the value of the stage before it.
pixelateImageResult(img, s) ==
  CHOOSE url \in
    {toDataURL([width |-> img.width, height |-> img.height, data |-> gridded,
                text |-> <<>>]) :
       gridded \in
         {drawGrid(blocks, img.width, img.height, s) :
            blocks \in
              {pixelateLoop(decoded, img.width, img.height, 0, 0, s) :
                 decoded \in {drawImageAt00(img, img.width, img.height)}}}} : TRUE

\* What exportImage(img, settings, scale) resolves with, stage by stage.
exportImageResult(img, s, sc) ==
  CHOOSE url \in
    {toDataURL([width |-> img.width * sc, height |-> img.height * sc, data |-> scaled,
                text |-> <<addWatermark(img.width * sc, img.height * sc)>>]) :
       scaled \in
         {scaleUp([width |-> img.width, height |-> img.height, data |-> gridded,
                   text |-> <<>>], img.width * sc, img.height * sc, sc) :
            gridded \in
              {exportDrawGrid(blocks, img.width, img.height, s) :
                 blocks \in
                   {exportLoop(decoded, img.width, img.height, 0, 0, s) :
                      decoded \in {drawImageAt00(img, img.width, img.height)}}}}} : TRUE

EngineNext ==
  \/ CallPixelateImage
  \/ CallExportImage
  \/ ImgOnerror
  \/ OnloadNoContext
  \/ OnloadThrows
  \/ PixelateDecode
  \/ PixelateBlocks
  \/ PixelateGrid
  \/ PixelateResolve
  \/ ExportDecode
  \/ ExportBlocks
  \/ ExportGrid
  \/ ExportScale
  \/ ExportWatermark
  \/ ExportResolve
  \/ CallReturns

(***************************************************************************)
(* PixelationWindow: the preview effect                                    *)
(***************************************************************************)
MaxRequests == 3

\* imageData = null.
noImage == [width |-> 0, height |-> 0, data |-> <<>>]

\* pixelatedSrc = "".
emptySrc == NoValue

\* DEFAULT_SETTINGS.
DEFAULT_SETTINGS ==
  [pixelSize |-> 8, shape |-> "square", sampling |-> "averaged",
   colorEffect |-> "normal", paletteSize |-> 256, showGrid |-> FALSE,
   duotoneColor1 |-> <<>>, duotoneColor2 |-> <<>>, posterizeLevels |-> 0]

\* The settings the controls are moved to in the model.
PreviewSettings ==
  {DEFAULT_SETTINGS, [DEFAULT_SETTINGS EXCEPT !.pixelSize = 1],
   [DEFAULT_SETTINGS EXCEPT !.colorEffect = "grayscale"]}

\* The images uploaded in the model.
PreviewImages == {imageOf(MaxWidth, MaxHeight, 0), imageOf(1, MaxHeight, 1)}

PreviewIdle ==
  /\ imageData = noImage
  /\ settings = DEFAULT_SETTINGS
  /\ pixelatedSrc = emptySrc
  /\ isProcessing = FALSE
  /\ calls = <<>>

\* The state after the first render and its effect, which finds imageData null.
PreviewInit == PreviewIdle

PreviewOnly == UNCHANGED <<engineVars, batchVars, colorVars, loopVars, fxVars,
  panelVars>>

\* The effect body, run after a render in which imageData or settings changed.
previewEffect(image, s) ==
  IF image = noImage
  THEN /\ pixelatedSrc' = emptySrc
       /\ UNCHANGED <<isProcessing, calls>>
  ELSE /\ isProcessing' = TRUE
       /\ calls' = Append(calls, [src |-> image, settings |-> s, state |-> "pending"])
       /\ UNCHANGED pixelatedSrc

\* Home sets imageData after an upload; the effect runs.
UploadImage ==
  /\ Len(calls) < MaxRequests
  /\ \E image \in PreviewImages :
       /\ imageData' = image
       /\ UNCHANGED settings
       /\ previewEffect(image, settings)
  /\ PreviewOnly

\* A control or preset calls setSettings; the effect runs.
ChangeSettings ==
  /\ Len(calls) < MaxRequests
  /\ \E s \in PreviewSettings :
       /\ settings' = s
       /\ UNCHANGED imageData
       /\ previewEffect(imageData, s)
  /\ PreviewOnly

\* A pending pixelateImage call resolves and its .then handler runs.
CallFulfils ==
  /\ \E i \in 1..Len(calls) :
       /\ calls[i].state = "pending"
       /\ calls' = [calls EXCEPT ![i].state = "fulfilled"]
       /\ pixelatedSrc' = pixelateImageResult(calls[i].src, calls[i].settings)
  /\ isProcessing' = FALSE
  /\ UNCHANGED <<imageData, settings>>
  /\ PreviewOnly

\* A pending pixelateImage call rejects and the .catch handler runs.
CallRejects ==
  /\ \E i \in 1..Len(calls) :
       /\ calls[i].state = "pending"
       /\ calls' = [calls EXCEPT ![i].state = "rejected"]
  /\ isProcessing' = FALSE
  /\ UNCHANGED <<imageData, settings, pixelatedSrc>>
  /\ PreviewOnly

PreviewNext ==
  \/ UploadImage
  \/ ChangeSettings
  \/ CallFulfils
  \/ CallRejects

(***************************************************************************)
(* PixelControlsAdvanced: the controls and presets that call setSettings   *)
(***************************************************************************)
\* COMMON_PRESETS: the settings of "Avatar Censor", "Retro Sprite", "Mosaic Art",
\* "Lo-Fi Poster" and "Privacy Blur"; a field a preset leaves out is unset.
COMMON_PRESETS ==
  {[DEFAULT_SETTINGS EXCEPT !.pixelSize = 16],
   [DEFAULT_SETTINGS EXCEPT !.pixelSize = 8, !.sampling = "nearest",
                            !.colorEffect = "posterize", !.paletteSize = 64,
                            !.posterizeLevels = 4, !.showGrid = TRUE],
   [DEFAULT_SETTINGS EXCEPT !.pixelSize = 12, !.shape = "hex"],
   [DEFAULT_SETTINGS EXCEPT !.pixelSize = 10, !.colorEffect = "duotone",
                            !.paletteSize = 32, !.duotoneColor1 = Hex1a1a2e,
                            !.duotoneColor2 = Hexff006e],
   [DEFAULT_SETTINGS EXCEPT !.pixelSize = 20]}

\* The values e.target.value of the colour inputs takes in the model.
PickerColors == {Hex1a1a2e, Hexff006e}

\* onSettingsChange(next) is setSettings(next): the component renders again with
\* a new settings object and the preview effect runs.
onSettingsChange(next) ==
  /\ Len(calls) < MaxRequests
  /\ settings' = next
  /\ UNCHANGED imageData
  /\ previewEffect(imageData, next)
  /\ PreviewOnly

\* One of the buttons normal, grayscale, duotone, posterize is clicked.
ClickColorEffect ==
  /\ imageData # noImage
  /\ \E effect \in {"normal", "grayscale", "duotone", "posterize"} :
       onSettingsChange([settings EXCEPT !.colorEffect = effect])

\* The "Primary Color" input, rendered while colorEffect is duotone, changes.
PickDuotoneColor1 ==
  /\ imageData # noImage /\ settings.colorEffect = "duotone"
  /\ \E color \in PickerColors :
       onSettingsChange([settings EXCEPT !.duotoneColor1 = color])

\* The "Secondary Color" input, rendered while colorEffect is duotone, changes.
PickDuotoneColor2 ==
  /\ imageData # noImage /\ settings.colorEffect = "duotone"
  /\ \E color \in PickerColors :
       onSettingsChange([settings EXCEPT !.duotoneColor2 = color])

\* The "Posterize Levels" slider, rendered while colorEffect is posterize, moves.
SlidePosterizeLevels ==
  /\ imageData # noImage /\ settings.colorEffect = "posterize"
  /\ \E levels \in MinPosterizeLevels..MaxPosterizeLevels :
       onSettingsChange([settings EXCEPT !.posterizeLevels = levels])

\* applyPreset(preset.settings) of a built-in preset: the settings are replaced.
ApplyPreset ==
  /\ COMMON_PRESETS # {}
  /\ \E preset \in COMMON_PRESETS : onSettingsChange(preset)

ControlsNext ==
  \/ UploadImage
  \/ ClickColorEffect
  \/ PickDuotoneColor1
  \/ PickDuotoneColor2
  \/ SlidePosterizeLevels
  \/ ApplyPreset

(***************************************************************************)
(* ExportPanel: handleBatchExport                                          *)
(***************************************************************************)
\* const scales = [1, 2, 4].
scales == <<1, 2, 4>>

\* The settings the batch is run with in the model.
BatchSettings ==
  {[DEFAULT_SETTINGS EXCEPT !.pixelSize = MaxPixelSize],
   [DEFAULT_SETTINGS EXCEPT !.pixelSize = 1, !.showGrid = TRUE, !.paletteSize = 64]}

BatchIdle ==
  /\ batchPc = "idle"
  /\ batchIndex = 0
  /\ exportProgress = "null"
  /\ exportedFiles = <<>>
  /\ toasts = <<>>
  /\ downloads = <<>>
  /\ attempted = <<>>
  /\ failed = <<>>

BatchOnly == UNCHANGED <<engineVars, previewVars, colorVars, loopVars, fxVars,
  panelVars>>

\* A catch block placed around the loop: after it no iteration follows.
afterCatchAbort(i) == Len(scales) + 1

\* The index of the iteration that follows the catch block of iteration i.
afterCatch(i) == i + 1

\* The top of the loop body for index i (setExportProgress and the call of
\* exportImage), or the code after the loop once the scales are exhausted.
batchIterate(i, toastsNow) ==
  IF i <= Len(scales)
  THEN /\ batchIndex' = i
       /\ exportProgress' = "Batch exporting"
       /\ attempted' = Append(attempted, scales[i])
       /\ batchPc' = "exporting"
       /\ toasts' = toastsNow
  ELSE /\ batchIndex' = i
       /\ exportProgress' = "null"
       /\ UNCHANGED attempted
       /\ batchPc' = "done"
       /\ toasts' = Append(toastsNow, [message |-> "Batch export completed", scale |-> 0,
                                       type |-> "success"])

\* The click on "Export All Scales": up to the first await.
BatchStart ==
  /\ batchPc = "idle"
  /\ exportProgress = "null" /\ ~isProcessing /\ imageData # noImage
  /\ exportedFiles' = <<>>
  /\ batchIterate(1, toasts)
  /\ UNCHANGED <<downloads, failed>>
  /\ BatchOnly

\* The awaited exportImage resolves: the download is started and the handler
\* awaits the 500 ms timer.
BatchExportFulfils ==
  /\ batchPc = "exporting"
  /\ downloads' = Append(downloads, scales[batchIndex])
  /\ batchPc' = "waiting"
  /\ UNCHANGED <<batchIndex, exportProgress, exportedFiles, toasts, attempted, failed>>
  /\ BatchOnly

\* The 500 ms timer fires: the file is recorded and the loop goes on.
BatchTimerFires ==
  /\ batchPc = "waiting"
  /\ exportedFiles' =
       Append(exportedFiles,
              [scale |-> scales[batchIndex],
               dataUrl |-> exportImageResult(imageData, settings, scales[batchIndex])])
  /\ batchIterate(batchIndex + 1, toasts)
  /\ UNCHANGED <<downloads, failed>>
  /\ BatchOnly

\* The awaited exportImage rejects: the catch block runs and the loop goes on.
BatchExportRejects ==
  /\ batchPc = "exporting"
  /\ failed' = Append(failed, scales[batchIndex])
  /\ batchIterate(afterCatch(batchIndex),
                  Append(toasts, [message |-> "Failed to export version",
                                  scale |-> scales[batchIndex], type |-> "error"]))
  /\ UNCHANGED <<downloads, exportedFiles>>
  /\ BatchOnly

BatchNext ==
  \/ BatchStart
  \/ BatchExportFulfils
  \/ BatchTimerFires
  \/ BatchExportRejects

(***************************************************************************)
(* reducePalette on its own, applied and applied again                     *)
(***************************************************************************)
\* The palette slider: max="256".
MaxPaletteSize == 256
\* Palette sizes above the slider's maximum that are tried as well.
PaletteOver == 1

\* Triples in which every channel takes every byte value.
ColorInputs == {<<Fx(c), Fx(ByteMax - c), Fx((c + 128) % 256)>> : c \in 0..ByteMax}

storeColor(c) == <<ToUint8Clamped(c[1]), ToUint8Clamped(c[2]), ToUint8Clamped(c[3])>>

ColorIdle ==
  /\ colorIn = <<0, 0, 0>>
  /\ colorPalette = MaxPaletteSize
  /\ colorOut = <<>>
  /\ colorStored = <<>>

PaletteInit ==
  /\ colorIn \in ColorInputs
  /\ colorPalette \in MinPaletteSize..(MaxPaletteSize + PaletteOver)
  /\ colorOut = <<>>
  /\ colorStored = <<>>

ColorOnly == UNCHANGED <<engineVars, previewVars, batchVars, loopVars, fxVars,
  panelVars>>

\* reducePalette on the input; the result is stored into a buffer.
ReducePaletteOnce ==
  /\ colorOut = <<>>
  /\ colorOut' = <<reducePalette(colorIn[1], colorIn[2], colorIn[3], colorPalette)>>
  /\ colorStored' = <<storeColor(colorOut'[1])>>
  /\ UNCHANGED <<colorIn, colorPalette>>
  /\ ColorOnly

\* reducePalette on its own result, and on the bytes the buffer holds.
ReducePaletteAgain ==
  /\ Len(colorOut) = 1
  /\ colorOut' = Append(colorOut, reducePalette(colorOut[1][1], colorOut[1][2],
                                                colorOut[1][3], colorPalette))
  /\ colorStored' =
       Append(colorStored,
              storeColor(reducePalette(Fx(colorStored[1][1]), Fx(colorStored[1][2]),
                                       Fx(colorStored[1][3]), colorPalette)))
  /\ UNCHANGED <<colorIn, colorPalette>>
  /\ ColorOnly

PaletteNext ==
  \/ ReducePaletteOnce
  \/ ReducePaletteAgain

(***************************************************************************)
(* A sequence of calls whose earlier calls are remembered                  *)
(***************************************************************************)
MaxEarlier == 2

\* The files and the settings of the remembered calls.
CallsImages == {imageOf(MaxWidth, MaxHeight, 0), imageOf(MaxWidth, 1, 1)}

CallsSettings ==
  {[DEFAULT_SETTINGS EXCEPT !.pixelSize = MaxPixelSize],
   [DEFAULT_SETTINGS EXCEPT !.pixelSize = 1, !.colorEffect = "grayscale",
                            !.showGrid = TRUE]}

CallPixelateImageFew ==
  /\ pc = "idle"
  /\ \E s \in CallsSettings : startCall("pixelateImage", s, 1)

CallExportImageFew ==
  /\ pc = "idle"
  /\ \E s \in CallsSettings, sc \in 1..MaxScale : startCall("exportImage", s, sc)

CallReturnsRecorded ==
  /\ returnCall
  /\ earlier' = IF Len(earlier) < MaxEarlier
                THEN Append(earlier, [kind |-> callKind, settings |-> callSettings,
                                      state |-> promise.state])
                ELSE earlier

CallsNext ==
  \/ CallPixelateImageFew
  \/ CallExportImageFew
  \/ ImgOnerror
  \/ OnloadNoContext
  \/ OnloadThrows
  \/ PixelateDecode
  \/ PixelateBlocks
  \/ PixelateGrid
  \/ PixelateResolve
  \/ ExportDecode
  \/ ExportBlocks
  \/ ExportGrid
  \/ ExportScale
  \/ ExportWatermark
  \/ ExportResolve
  \/ CallReturnsRecorded

(***************************************************************************)
(* The block loop, one iteration at a time                                 *)
(***************************************************************************)
\* An image of vertical stripes, white and black in turn.
stripesImage(width, height) ==
  [width |-> width, height |-> height,
   data |-> [i \in 0..(4 * width * height - 1) |->
               Colours[1 + (((i \div 4) % width) % 2)][(i % 4) + 1]]]

\* An image of one colour, half transparent.
flatImage(width, height) ==
  [width |-> width, height |-> height,
   data |-> [i \in 0..(4 * width * height - 1) |-> Colours[3][(i % 4) + 1]]]

\* The images the loop is run on.
LoopImages ==
  Images \cup {stripesImage(MaxWidth, MaxHeight), flatImage(MaxWidth, MaxHeight)}

\* The loop does not read showGrid. Duotone with only its first colour unset
\* is run as well.
LoopSettings ==
  {s \in SettingsChoices : ~s.showGrid}
    \cup {[s EXCEPT !.duotoneColor1 = <<>>] :
            s \in {t \in SettingsChoices :
                     /\ ~t.showGrid /\ t.colorEffect = "duotone"
                     /\ TruthyColor(t.duotoneColor1)
                     /\ TruthyColor(t.duotoneColor2)}}

\* The indices "Sample color" reads in pixelateImage.
sampleReads(width, height, x, y, s) ==
  IF s.sampling = "nearest"
  THEN LET idx == (y * width + x) * 4 IN {idx, idx + 1, idx + 2, idx + 3}
  ELSE {i + k : i \in blockIndices(width, height, x, y, s.pixelSize), k \in 0..3}

\* The indices "Draw the pixel block" stores to in pixelateImage.
drawWrites(width, height, x, y, blockSize) ==
  {i + k : i \in blockIndices(width, height, x, y, blockSize), k \in 0..3}

\* The indices the sampling branch of exportImage reads.
exportSampleReads(width, height, x, y, s) ==
  IF s.sampling = "nearest"
  THEN LET idx == (y * width + x) * 4 IN {idx, idx + 1, idx + 2, idx + 3}
  ELSE {i + k : i \in exportBlockIndices(width, height, x, y, s.pixelSize),
                k \in 0..3}

\* The indices the write-back of exportImage stores to.
exportWrites(width, height, x, y, blockSize) ==
  {i + k : i \in exportBlockIndices(width, height, x, y, blockSize), k \in 0..3}

LoopIdle ==
  /\ loopKind = "none"
  /\ loopImage = noImage
  /\ loopSettings = DEFAULT_SETTINGS
  /\ loopData = <<>>
  /\ loopX = 0
  /\ loopY = 0
  /\ loopPc = "idle"
  /\ loopLog = <<>>

\* "const data = imageData.data; const blockSize = settings.pixelSize; let y = 0".
LoopInit ==
  /\ loopKind \in {"pixelateImage", "exportImage"}
  /\ loopImage \in LoopImages
  /\ loopSettings \in LoopSettings
  /\ loopData = loopImage.data
  /\ loopX = 0
  /\ loopY = 0
  /\ loopPc = "y-test"
  /\ loopLog = <<>>

LoopOnly == UNCHANGED <<engineVars, previewVars, batchVars, colorVars, fxVars,
  panelVars>>

\* An x loop that starts where the x loop of the row above stopped.
LoopEnterRowKeepX ==
  /\ loopPc = "y-test" /\ loopY < loopImage.height
  /\ loopPc' = "x-test"
  /\ UNCHANGED <<loopKind, loopImage, loopSettings, loopData, loopX, loopY, loopLog>>
  /\ LoopOnly

\* "y < canvas.height" holds: the x loop starts with "let x = 0".
LoopEnterRow ==
  /\ loopPc = "y-test" /\ loopY < loopImage.height
  /\ loopX' = 0
  /\ loopPc' = "x-test"
  /\ UNCHANGED <<loopKind, loopImage, loopSettings, loopData, loopY, loopLog>>
  /\ LoopOnly

\* "y < canvas.height" fails: the loop is left.
LoopExit ==
  /\ loopPc = "y-test" /\ loopY >= loopImage.height
  /\ loopPc' = "done"
  /\ UNCHANGED <<loopKind, loopImage, loopSettings, loopData, loopX, loopY, loopLog>>
  /\ LoopOnly

\* "x < canvas.width" fails: "y += blockSize".
LoopNextRow ==
  /\ loopPc = "x-test" /\ loopX >= loopImage.width
  /\ loopY' = loopY + loopSettings.pixelSize
  /\ loopPc' = "y-test"
  /\ UNCHANGED <<loopKind, loopImage, loopSettings, loopData, loopX, loopLog>>
  /\ LoopOnly

\* pixelateImage: the body of the x loop on the block at (x, y), "x += blockSize".
LoopBlock ==
  /\ loopKind = "pixelateImage"
  /\ loopPc = "x-test" /\ loopX < loopImage.width
  /\ loopData' = pixelateBlock(loopData, loopImage.width, loopImage.height, loopX, loopY,
                               loopSettings)
  /\ loopLog' =
       Append(loopLog,
              [x |-> loopX, y |-> loopY,
               reads |-> sampleReads(loopImage.width, loopImage.height, loopX, loopY,
                                     loopSettings),
               sample |-> sampleBlock(loopData, loopImage.width, loopImage.height,
                                      loopX, loopY, loopSettings),
               final |-> LET c == sampleBlock(loopData, loopImage.width, loopImage.height,
                                              loopX, loopY, loopSettings)
                         IN finalColor(c[1], c[2], c[3], loopSettings),
               writes |-> drawWrites(loopImage.width, loopImage.height, loopX, loopY,
                                     loopSettings.pixelSize)])
  /\ loopX' = loopX + loopSettings.pixelSize
  /\ UNCHANGED <<loopKind, loopImage, loopSettings, loopY, loopPc>>
  /\ LoopOnly

\* exportImage: the body of its x loop on the block at (x, y), "x += blockSize".
ExportLoopBlock ==
  /\ loopKind = "exportImage"
  /\ loopPc = "x-test" /\ loopX < loopImage.width
  /\ loopData' = exportBlock(loopData, loopImage.width, loopImage.height, loopX, loopY,
                             loopSettings)
  /\ loopLog' =
       Append(loopLog,
              [x |-> loopX, y |-> loopY,
               reads |-> exportSampleReads(loopImage.width, loopImage.height, loopX,
                                           loopY, loopSettings),
               sample |-> exportSampleBlock(loopData, loopImage.width, loopImage.height,
                                            loopX, loopY, loopSettings),
               final |-> LET c == exportSampleBlock(loopData, loopImage.width,
                                                    loopImage.height, loopX, loopY,
                                                    loopSettings)
                         IN exportFinalColor(c[1], c[2], c[3], loopSettings),
               writes |-> exportWrites(loopImage.width, loopImage.height, loopX, loopY,
                                       loopSettings.pixelSize)])
  /\ loopX' = loopX + loopSettings.pixelSize
  /\ UNCHANGED <<loopKind, loopImage, loopSettings, loopY, loopPc>>
  /\ LoopOnly

LoopNext ==
  \/ LoopEnterRow
  \/ LoopExit
  \/ LoopNextRow
  \/ LoopBlock
  \/ ExportLoopBlock

(***************************************************************************)
(* The colour effects on their own                                         *)
(***************************************************************************)
\* "#000000" and "#ffffff".
Hex000000 == <<0, 0, 0, 0, 0, 0>>
Hexffffff == <<15, 15, 15, 15, 15, 15>>

\* The greys (c, c, c), and triples in which every channel takes every byte
\* value.
FxInputs ==
  {<<c, c, c>> : c \in 0..ByteMax}
    \cup {<<c, ByteMax - c, (c + 128) % 256>> : c \in 0..ByteMax}

\* The colour pairs applyDuotone is given.
FxColorPairs == {<<Hex000000, Hexffffff>>, <<Hex1a1a2e, Hexff006e>>}

FxIdle ==
  /\ fxIn = <<0, 0, 0>>
  /\ fxColors = <<Hex000000, Hexffffff>>
  /\ fxLevels = MinPosterizeLevels
  /\ fxGray = <<>>
  /\ fxDuo = <<>>
  /\ fxPost = <<>>

FxInit ==
  /\ fxIn \in FxInputs
  /\ fxColors \in FxColorPairs
  /\ fxLevels \in MinPosterizeLevels..MaxPosterizeLevels
  /\ fxGray = <<>>
  /\ fxDuo = <<>>
  /\ fxPost = <<>>

FxOnly == UNCHANGED <<engineVars, previewVars, batchVars, colorVars, loopVars,
  panelVars>>

\* applyGrayscale(r, g, b).
ApplyGrayscale ==
  /\ fxGray = <<>>
  /\ fxGray' = <<applyGrayscale(fxIn[1], fxIn[2], fxIn[3])>>
  /\ UNCHANGED <<fxIn, fxColors, fxLevels, fxDuo, fxPost>>
  /\ FxOnly

\* applyDuotone(r, g, b, color1, color2).
ApplyDuotone ==
  /\ fxDuo = <<>>
  /\ fxDuo' = <<applyDuotone(fxIn[1], fxIn[2], fxIn[3], fxColors[1], fxColors[2])>>
  /\ UNCHANGED <<fxIn, fxColors, fxLevels, fxGray, fxPost>>
  /\ FxOnly

\* applyPosterize(r, g, b, levels).
ApplyPosterize ==
  /\ fxPost = <<>>
  /\ fxPost' = <<applyPosterize(fxIn[1], fxIn[2], fxIn[3], fxLevels)>>
  /\ UNCHANGED <<fxIn, fxColors, fxLevels, fxGray, fxDuo>>
  /\ FxOnly

FxNext ==
  \/ ApplyGrayscale
  \/ ApplyDuotone
  \/ ApplyPosterize

(***************************************************************************)
(* addWatermark on its own                                                 *)
(***************************************************************************)
\* The widest and highest image the watermark is placed on in the model.
MaxMarkWidth == 400

MarkIdle ==
  /\ markWidth = 1
  /\ markHeight = 1
  /\ markScale = 1
  /\ markRun = <<>>

\* canvas.width = img.width * scale, canvas.height = img.height * scale.
MarkInit ==
  /\ markWidth \in 1..MaxMarkWidth
  /\ markHeight \in {1, MaxMarkWidth}
  /\ markScale \in {scales[i] : i \in 1..Len(scales)}
  /\ markRun = <<>>

\* exportImage: addWatermark(ctx, canvas.width, canvas.height).
StampWatermark ==
  /\ markRun = <<>>
  /\ markRun' = <<addWatermark(markWidth * markScale, markHeight * markScale)>>
  /\ UNCHANGED <<markWidth, markHeight, markScale>>
  /\ UNCHANGED <<engineVars, previewVars, batchVars, colorVars, loopVars, fxVars,
                 debounceVars, presetVars>>

(***************************************************************************)
(* PixelControlsAdvanced: handlePixelSizeChange and its debounce timer     *)
(***************************************************************************)
\* The values the slider, the snap buttons and the number input pass.
PixelSizeInputs == {0, 16, 101}

\* handlePixelSizeChange(value): the pending timer is cleared and a new one is
\* set whose callback holds the settings of the render the handler was made in.
HandlePixelSizeChange ==
  /\ imageData # noImage
  /\ \E value \in PixelSizeInputs :
       debounceTimer' = <<[settings |-> settings, value |-> Max(1, Min(100, value))]>>
  /\ UNCHANGED <<engineVars, previewVars, batchVars, colorVars, loopVars, fxVars,
                 markVars, presetVars>>

\* The timer fires: onSettingsChange({ ...settings, pixelSize: clampedValue }).
PixelSizeTimerFires ==
  /\ debounceTimer # <<>>
  /\ Len(calls) < MaxRequests
  /\ LET next == [debounceTimer[1].settings EXCEPT !.pixelSize = debounceTimer[1].value]
     IN /\ settings' = next
        /\ previewEffect(imageData, next)
  /\ debounceTimer' = <<>>
  /\ UNCHANGED imageData
  /\ UNCHANGED <<engineVars, batchVars, colorVars, loopVars, fxVars, markVars, presetVars>>

DebounceNext ==
  \/ ControlsNext
  \/ HandlePixelSizeChange
  \/ PixelSizeTimerFires

(***************************************************************************)
(* The custom presets of PixelControlsAdvanced and PresetBrowser           *)
(***************************************************************************)
\* The names typed into prompt("Preset name:"), and the longest list kept.
PresetNames == {"a", "b"}
MaxPresets == 2

\* PresetBrowser: { ...preset.settings, name: preset.name, thumbnail }.
toPreview(preset) ==
  [pixelSize |-> preset.settings.pixelSize, shape |-> preset.settings.shape,
   sampling |-> preset.settings.sampling, colorEffect |-> preset.settings.colorEffect,
   paletteSize |-> preset.settings.paletteSize, showGrid |-> preset.settings.showGrid,
   duotoneColor1 |-> preset.settings.duotoneColor1,
   duotoneColor2 |-> preset.settings.duotoneColor2,
   posterizeLevels |-> preset.settings.posterizeLevels,
   name |-> preset.name, thumbnail |-> "thumbnail"]

\* PresetBrowser: ({ name: p.name, settings: { pixelSize: p.pixelSize, ... } }).
toStored(p) ==
  [name |-> p.name,
   settings |-> [pixelSize |-> p.pixelSize, shape |-> p.shape, sampling |-> p.sampling,
                 colorEffect |-> p.colorEffect, paletteSize |-> p.paletteSize,
                 showGrid |-> p.showGrid, duotoneColor1 |-> p.duotoneColor1,
                 duotoneColor2 |-> p.duotoneColor2,
                 posterizeLevels |-> p.posterizeLevels]]

\* customList.map(...) of the effect: the stored list as the browser holds it.
toPreviews(list) == [i \in 1..Len(list) |-> toPreview(list[i])]

\* updated.map(...) and newCustom.map(...): the browser's list as it is stored.
toStoredList(list) == [i \in 1..Len(list) |-> toStored(list[i])]

\* The presets saved and not deleted since, counted.
keptCount == SumOver(presetsKept, PresetNames)

\* list.filter((_, i) => i !== idx), idx counted from 1.
removeAt(list, idx) == SubSeq(list, 1, idx - 1) \o SubSeq(list, idx + 1, Len(list))

PresetsIdle ==
  /\ presetStorage = <<>>
  /\ controlsPresets = <<>>
  /\ browserPresets = <<>>
  /\ presetsKept = [name \in PresetNames |-> 0]

PresetsOnly ==
  UNCHANGED <<engineVars, previewVars, batchVars, colorVars, loopVars, fxVars, markVars,
              debounceVars>>

\* PixelControlsAdvanced, "Save as Preset": savePreset(name).
ControlsSavePreset ==
  /\ imageData # noImage /\ Len(controlsPresets) < MaxPresets /\ keptCount < MaxPresets
  /\ \E name \in PresetNames :
       /\ controlsPresets' = Append(controlsPresets, [name |-> name, settings |-> settings])
       /\ presetsKept' = [presetsKept EXCEPT ![name] = @ + 1]
  /\ presetStorage' = controlsPresets'
  /\ UNCHANGED browserPresets
  /\ PresetsOnly

\* PixelControlsAdvanced, "Delete preset" of the entry at idx.
ControlsDeletePreset ==
  /\ \E idx \in 1..Len(controlsPresets) :
       /\ controlsPresets' = removeAt(controlsPresets, idx)
       /\ presetsKept' = [presetsKept EXCEPT ![controlsPresets[idx].name] = Max(0, @ - 1)]
  /\ presetStorage' = controlsPresets'
  /\ UNCHANGED browserPresets
  /\ PresetsOnly

\* PresetBrowser, the effect on [imageData]: the stored list is read and,
\* once the thumbnails are made, becomes the customPresets state.
BrowserLoadPresets ==
  /\ imageData # noImage
  /\ browserPresets' = toPreviews(presetStorage)
  /\ UNCHANGED <<presetStorage, controlsPresets, presetsKept>>
  /\ PresetsOnly

\* PresetBrowser, saveCurrentAsPreset.
BrowserSavePreset ==
  /\ imageData # noImage /\ Len(browserPresets) < MaxPresets /\ keptCount < MaxPresets
  /\ \E name \in PresetNames :
       /\ browserPresets' =
            Append(browserPresets, toPreview([name |-> name, settings |-> settings]))
       /\ presetsKept' = [presetsKept EXCEPT ![name] = @ + 1]
  /\ presetStorage' = toStoredList(browserPresets')
  /\ UNCHANGED controlsPresets
  /\ PresetsOnly

\* PresetBrowser, deleteCustomPreset(name) of one of the presets shown.
BrowserDeletePreset ==
  /\ \E idx \in 1..Len(browserPresets) :
       /\ browserPresets' =
            SelectSeq(browserPresets, LAMBDA p : p.name # browserPresets[idx].name)
       /\ presetsKept' = [presetsKept EXCEPT ![browserPresets[idx].name] = Max(0, @ - 1)]
  /\ presetStorage' = toStoredList(browserPresets')
  /\ UNCHANGED controlsPresets
  /\ PresetsOnly

PresetsNext ==
  \/ ControlsSavePreset
  \/ ControlsDeletePreset
  \/ BrowserLoadPresets
  \/ BrowserSavePreset
  \/ BrowserDeletePreset

PanelIdle == MarkIdle /\ debounceTimer = <<>> /\ PresetsIdle

(***************************************************************************)
(* Specifications                                                          *)
(***************************************************************************)
Init == EngineInit /\ PreviewIdle /\ BatchIdle /\ ColorIdle /\ LoopIdle /\ FxIdle /\ PanelIdle

Next == EngineNext

\* The engine: any sequence of pixelateImage and exportImage calls on one file.
Spec == Init /\ [][Next]_vars

InitCalls == EngineInit /\ file \in CallsImages /\ PreviewIdle /\ BatchIdle /\ ColorIdle
  /\ LoopIdle /\ FxIdle /\ PanelIdle

\* The engine on a few files and settings, remembering the calls that returned.
SpecCalls == InitCalls /\ [][CallsNext]_vars

EngineIdle ==
  /\ file = noCanvas
  /\ source = noCanvas
  /\ pc = "idle"
  /\ callKind = "none"
  /\ callSettings = DEFAULT_SETTINGS
  /\ callScale = 1
  /\ data = noCanvas.data
  /\ canvas = noCanvas
  /\ tempCanvas = noCanvas
  /\ promise = pendingPromise
  /\ resolveCalls = 0
  /\ rejectCalls = 0
  /\ loads = 0
  /\ stageLog = <<>>
  /\ earlier = <<>>

InitPreview ==
  /\ EngineIdle /\ PreviewInit /\ BatchIdle /\ ColorIdle /\ LoopIdle /\ FxIdle
  /\ PanelIdle

\* PixelationWindow: uploads, settings changes and the completions of the
\* preview calls, in any order.
SpecPreview == InitPreview /\ [][PreviewNext]_vars

\* The preview component with its colour effect controls and presets, from the
\* default settings.
SpecControls == InitPreview /\ [][ControlsNext]_vars

InitBatch ==
  /\ EngineIdle /\ BatchIdle /\ ColorIdle /\ LoopIdle /\ FxIdle /\ PanelIdle
  /\ imageData \in Images
  /\ settings \in BatchSettings
  /\ pixelatedSrc = emptySrc
  /\ isProcessing = FALSE
  /\ calls = <<>>

\* ExportPanel: one batch export, each exportImage call resolving or rejecting.
SpecBatch == InitBatch /\ [][BatchNext]_vars

InitPalette ==
  /\ EngineIdle /\ PreviewIdle /\ BatchIdle /\ PaletteInit /\ LoopIdle /\ FxIdle
  /\ PanelIdle

\* reducePalette applied to every byte value under every palette size.
SpecPalette == InitPalette /\ [][PaletteNext]_vars

InitLoop ==
  /\ EngineIdle /\ PreviewIdle /\ BatchIdle /\ ColorIdle /\ FxIdle /\ PanelIdle
  /\ LoopInit

\* The block loop of pixelateImage and of exportImage, iteration by iteration.
SpecLoop == InitLoop /\ [][LoopNext]_vars

InitEffects ==
  /\ EngineIdle /\ PreviewIdle /\ BatchIdle /\ ColorIdle /\ LoopIdle
  /\ FxInit /\ PanelIdle

\* applyGrayscale, applyDuotone and applyPosterize applied to one input.
SpecEffects == InitEffects /\ [][FxNext]_vars

InitWatermark ==
  /\ EngineIdle /\ PreviewIdle /\ BatchIdle /\ ColorIdle /\ LoopIdle /\ FxIdle
  /\ MarkInit /\ debounceTimer = <<>> /\ PresetsIdle

\* addWatermark on canvases of many sizes.
SpecWatermark == InitWatermark /\ [][StampWatermark]_vars

\* The controls with the debounced pixel size, from the default settings.
SpecDebounce == InitPreview /\ [][DebounceNext]_vars

InitPresets ==
  /\ EngineIdle /\ BatchIdle /\ ColorIdle /\ LoopIdle /\ FxIdle /\ PanelIdle
  /\ imageData \in PreviewImages
  /\ settings = DEFAULT_SETTINGS
  /\ pixelatedSrc = emptySrc
  /\ isProcessing = FALSE
  /\ calls = <<>>

\* The two components that keep custom presets, with an image uploaded.
SpecPresets == InitPresets /\ [][PresetsNext]_vars

(***************************************************************************)
(* Properties of the preview (SpecPreview)                                 *)
(***************************************************************************)
\* Every pixelateImage call the effect has made has settled.
AllSettled ==
  /\ Len(calls) > 0
  /\ \A i \in 1..Len(calls) : calls[i].state # "pending"

\* The call made for the most recently requested (imageData, settings).
latestCall == calls[Len(calls)]

\* C1: once every in-flight pixelateImage call of the preview has settled (the
\* latest of them with a result), pixelatedSrc is the result computed for the
\* most recently requested (imageData, settings), whatever order the calls
\* completed in.
PreviewShowsLatest ==
  (AllSettled /\ latestCall.state = "fulfilled")
    => /\ latestCall.src = imageData /\ latestCall.settings = settings
       /\ pixelatedSrc = pixelateImageResult(imageData, settings)

\* C2: the completion of a preview call that a newer request has superseded
\* never changes pixelatedSrc.
StaleCompletionDiscarded ==
  [][\A i \in 1..Len(calls) :
       (/\ i < Len(calls)
        /\ calls[i].state = "pending"
        /\ Len(calls') = Len(calls)
        /\ calls'[i].state # "pending")
         => pixelatedSrc' = pixelatedSrc]_vars

(***************************************************************************)
(* Properties of the engine (Spec)                                         *)
(***************************************************************************)
\* The current call has resolved.
Fulfilled == pc = "settled" /\ promise.state = "fulfilled"

\* The origins (x, y) of the blocks the loops of pixelateImage visit.
blockOrigins(width, height, blockSize) ==
  {<<x, y>> \in (0..(width - 1)) \X (0..(height - 1)) :
     x % blockSize = 0 /\ y % blockSize = 0}

\* C3: with showGrid off, any two pixels of the pixelateImage output whose
\* coordinates have the same floor(x / pixelSize) and floor(y / pixelSize) have
\* identical (r, g, b, a), and every pixel lies in exactly one block of the loop.
BlocksAreUniform ==
  (Fulfilled /\ callKind = "pixelateImage" /\ ~callSettings.showGrid)
    => LET out == promise.value
           size == callSettings.pixelSize
       IN /\ out.width = file.width /\ out.height = file.height
          /\ \A x1, x2 \in 0..(out.width - 1), y1, y2 \in 0..(out.height - 1) :
               (Floor(x1, size) = Floor(x2, size) /\ Floor(y1, size) = Floor(y2, size))
                 => PixelAt(out, x1, y1) = PixelAt(out, x2, y2)
          /\ \A x \in 0..(out.width - 1), y \in 0..(out.height - 1) :
               Cardinality({o \in blockOrigins(out.width, out.height, size) :
                              (y * out.width + x) * 4
                                \in blockIndices(out.width, out.height, o[1], o[2], size)})
                 = 1

\* A pixelateImage call without grid has resolved for a block of more than one
\* pixel whose source pixels differ.
BlocksAreUniformWitness ==
  /\ Fulfilled /\ callKind = "pixelateImage" /\ ~callSettings.showGrid
  /\ callSettings.pixelSize = MaxPixelSize /\ callSettings.sampling = "averaged"
  /\ file.width > MaxPixelSize
  /\ PixelAt(file, 0, 0) # PixelAt(file, 1, 0)
  /\ PixelAt(promise.value, 0, 0) # PixelAt(file, 0, 0)

\* C4: the native-resolution buffer exportImage holds before scaling and
\* watermarking is the buffer pixelateImage produces for the same source and
\* settings, grid included; an export at scale 1 is that buffer plus the
\* watermark.
ExportNativeIsPreview ==
  /\ (callKind = "exportImage" /\ pc = "gridded")
       => LET preview == pixelateImageResult(file, callSettings)
          IN /\ tempCanvas.width = preview.width /\ tempCanvas.height = preview.height
             /\ tempCanvas.data = preview.data
  /\ (Fulfilled /\ callKind = "exportImage" /\ callScale = 1)
       => /\ [promise.value EXCEPT !.text = <<>>] = pixelateImageResult(file, callSettings)
          /\ promise.value.text = <<addWatermark(file.width, file.height)>>

\* An export at scale 1 has resolved with grid, palette reduction and an effect
\* at work.
ExportNativeIsPreviewWitness ==
  /\ Fulfilled /\ callKind = "exportImage" /\ callScale = 1
  /\ callSettings.showGrid /\ callSettings.paletteSize < Levels256
  /\ callSettings.colorEffect = "duotone" /\ TruthyColor(callSettings.duotoneColor2)
  /\ callSettings.pixelSize = MaxPixelSize /\ file.width > MaxPixelSize
  /\ promise.value.data # file.data

\* C5: before watermarking, the export canvas is (width * scale) x
\* (height * scale) and its pixel (x, y) is the native pixel
\* (floor(x / scale), floor(y / scale)); at scale 2 each native pixel fills a
\* 2 x 2 square, at scale 1 the canvas equals the native buffer.
ScaledByReplication ==
  (callKind = "exportImage" /\ pc = "scaled")
    => /\ tempCanvas.width = file.width /\ tempCanvas.height = file.height
       /\ canvas.width = file.width * callScale
       /\ canvas.height = file.height * callScale
       /\ DOMAIN canvas.data = 0..(4 * canvas.width * canvas.height - 1)
       /\ canvas.text = <<>>
       /\ \A x \in 0..(canvas.width - 1), y \in 0..(canvas.height - 1) :
            PixelAt(canvas, x, y)
              = PixelAt(tempCanvas, Floor(x, callScale), Floor(y, callScale))
       /\ callScale = 2
            => \A x \in 0..(tempCanvas.width - 1), y \in 0..(tempCanvas.height - 1) :
                 \A dx, dy \in 0..1 :
                   PixelAt(canvas, 2 * x + dx, 2 * y + dy) = PixelAt(tempCanvas, x, y)
       /\ callScale = 1 => canvas.data = tempCanvas.data

\* The scaling step has run at the largest scale on a native buffer whose
\* neighbouring pixels differ.
ScaledByReplicationWitness ==
  /\ callKind = "exportImage" /\ pc = "scaled" /\ callScale = MaxScale
  /\ tempCanvas.width > 1 /\ tempCanvas.height > 1
  /\ PixelAt(tempCanvas, 0, 0) # PixelAt(tempCanvas, 1, 0)
  /\ PixelAt(tempCanvas, 0, 0) # PixelAt(tempCanvas, 0, 1)

\* The stages a call runs through when nothing fails.
allStages(kind, s) ==
  IF kind = "pixelateImage"
  THEN <<"decode", "blocks">> \o (IF s.showGrid THEN <<"grid">> ELSE <<>>) \o <<"encode">>
  ELSE <<"decode", "blocks">> \o (IF s.showGrid THEN <<"grid">> ELSE <<>>)
         \o <<"scale", "watermark", "encode">>

\* A data URL of a whole image of the given size.
completeImage(value, width, height) ==
  /\ value.mime = "image/png"
  /\ value.width = width /\ value.height = height
  /\ DOMAIN value.data = 0..(4 * width * height - 1)
  /\ \A i \in DOMAIN value.data : value.data[i] \in 0..ByteMax

\* C8: a pixelateImage or exportImage call settles exactly once: it resolves
\* with a complete encoded image after all of its stages, or it rejects with no
\* value, never both; it loads the image once and does not start over.
SettlesExactlyOnce ==
  /\ resolveCalls + rejectCalls <= 1
  /\ loads <= 1
  /\ pc \in {"loading", "decoded", "pixelated", "gridded", "scaled", "watermarked"}
       => /\ promise.state = "pending"
          /\ resolveCalls + rejectCalls = 0
          /\ loads = 1
  /\ pc = "settled"
       => /\ resolveCalls + rejectCalls = 1
          /\ loads = 1
          /\ promise.state = (IF resolveCalls = 1 THEN "fulfilled" ELSE "rejected")
          /\ promise.state = "fulfilled"
               => /\ completeImage(promise.value, file.width * callScale,
                                   file.height * callScale)
                  /\ stageLog = allStages(callKind, callSettings)
                  /\ promise.error = ""
          /\ promise.state = "rejected"
               => /\ promise.value = NoValue
                  /\ promise.error
                       \in contextErrors(callKind) \cup {"Failed to load image", "exception"}
                  /\ stageLog # allStages(callKind, callSettings)

\* An exportImage call has rejected on an exception thrown after its canvas
\* had been scaled: the work done is dropped with the call.
SettlesExactlyOnceWitness ==
  /\ pc = "settled" /\ callKind = "exportImage"
  /\ promise.state = "rejected" /\ promise.error = "exception"
  /\ stageLog[Len(stageLog)] = "scale"
  /\ canvas.data # noCanvas.data
  /\ rejectCalls = 1 /\ resolveCalls = 0

(***************************************************************************)
(* Properties of sequences of calls (SpecCalls)                            *)
(***************************************************************************)
\* C6: the result of a call depends on its arguments (source, settings, scale)
\* alone: whatever calls were made before it, with whatever settings, scales
\* and outcomes, the source image is unchanged and the call resolves with the
\* value the pipeline computes from its arguments.
ResultDependsOnArguments ==
  /\ source = file
  /\ Fulfilled
       => promise.value = IF callKind = "pixelateImage"
                          THEN pixelateImageResult(file, callSettings)
                          ELSE exportImageResult(file, callSettings, callScale)

\* A call has resolved after earlier calls of both kinds, one of which changed
\* the pixels of its buffer under other settings and one of which rejected.
ResultDependsOnArgumentsWitness ==
  /\ Fulfilled /\ Len(earlier) = MaxEarlier
  /\ \E i \in 1..Len(earlier) :
       /\ earlier[i].state = "fulfilled" /\ earlier[i].settings # callSettings
       /\ earlier[i].kind # callKind
  /\ \E i \in 1..Len(earlier) : earlier[i].state = "rejected"
  /\ promise.value.data # file.data

(***************************************************************************)
(* Properties of the batch export (SpecBatch)                              *)
(***************************************************************************)
\* The toasts that report a failure, oldest first.
errorToasts == SelectSeq(toasts, LAMBDA t : t.type = "error")

\* C7: in a batch export a failure of exportImage for one scale does not abort
\* the batch: the scales are attempted in the order 1, 2, 4, the scale after a
\* failed one is attempted at once, all three have been attempted when the
\* batch is done, and one failure is reported for each scale that failed.
BatchIsolatesFailures ==
  /\ Len(attempted) <= Len(scales)
  /\ \A i \in 1..Len(attempted) : attempted[i] = scales[i]
  /\ \A k \in 1..Len(failed) :
       \E i \in 1..Len(attempted) :
         /\ attempted[i] = failed[k]
         /\ i < Len(scales) => Len(attempted) > i
  /\ Len(errorToasts) = Len(failed)
  /\ \A k \in 1..Len(failed) : errorToasts[k].scale = failed[k]
  /\ batchPc = "done"
       => /\ attempted = scales
          /\ Len(failed) + Len(downloads) = Len(scales)
          /\ exportProgress = "null"

\* A batch is done in which the first scale failed and the two scales after it
\* were exported.
BatchIsolatesFailuresWitness ==
  /\ batchPc = "done"
  /\ failed = <<scales[1]>>
  /\ downloads = <<scales[2], scales[3]>>
  /\ Len(exportedFiles) = 2

(***************************************************************************)
(* Properties of reducePalette (SpecPalette)                               *)
(***************************************************************************)
\* C9: reducePalette is idempotent for every palette size in 2..256: applied to
\* its own result it returns that result, and a buffer holding the result of
\* one application holds the same bytes after another.
ReducePaletteIdempotent ==
  (Len(colorOut) = 2 /\ colorPalette \in MinPaletteSize..MaxPaletteSize)
    => /\ colorOut[2] = colorOut[1]
       /\ colorStored[2] = colorStored[1]

\* reducePalette has been applied twice under a palette size that moves the
\* input, to a value a byte cannot hold.
ReducePaletteIdempotentWitness ==
  /\ Len(colorOut) = 2 /\ colorPalette < Levels256
  /\ colorOut[1] # colorIn
  /\ \E k \in 1..3 : colorOut[1][k] > Fx(ByteMax)
  /\ colorStored[1] # colorOut[1]

\* C10: with paletteSize 256 or larger reducePalette returns its input triple
\* unchanged.
ReducePaletteIdentityFrom256 ==
  (Len(colorOut) >= 1 /\ colorPalette >= Levels256)
    => /\ colorOut[1] = colorIn
       /\ <<Fx(colorStored[1][1]), Fx(colorStored[1][2]), Fx(colorStored[1][3])>> = colorIn

\* reducePalette has been applied with paletteSize 256 to a triple that the
\* palette size 255 would have moved.
ReducePaletteIdentityFrom256Witness ==
  /\ Len(colorOut) >= 1 /\ colorPalette = Levels256
  /\ reducePalette(colorIn[1], colorIn[2], colorIn[3], Levels256 - 1) # colorIn

\* C29: for every channel triple in 0..255 and every paletteSize in 2..256
\* each channel reducePalette returns is an integer in 0..255, so that the
\* store into the buffer has nothing to clamp.
ReducePaletteInByteRange ==
  (Len(colorOut) >= 1 /\ colorPalette \in MinPaletteSize..MaxPaletteSize) =>
    \A k \in 1..3 :
      /\ colorOut[1][k] % Q = 0
      /\ colorOut[1][k] >= 0
      /\ colorOut[1][k] <= Fx(ByteMax)

(***************************************************************************)
(* Properties of the block loop (SpecLoop)                                 *)
(***************************************************************************)
\* The pixels (cx, cy) of the block at (x, y) that lie inside the image.
blockRect(width, height, x, y, blockSize) ==
  {c \in (0..(width - 1)) \X (0..(height - 1)) :
     /\ x <= c[1] /\ c[1] < x + blockSize
     /\ y <= c[2] /\ c[2] < y + blockSize}

\* The block of a log record is cut off by the right or the bottom edge.
clippedBlock(rec) ==
  \/ rec.x + loopSettings.pixelSize > loopImage.width
  \/ rec.y + loopSettings.pixelSize > loopImage.height

\* C11: with sampling = nearest the representative of every block, clipped
\* edge blocks included, is the (r, g, b, a) of the source pixel at the block's
\* top-left coordinate, in pixelateImage and in exportImage.
NearestTakesTopLeft ==
  \A n \in 1..Len(loopLog) :
    loopSettings.sampling = "nearest"
      => loopLog[n].sample = PixelAt(loopImage, loopLog[n].x, loopLog[n].y)

\* A clipped block after the first has been sampled with nearest, its top-left
\* pixel differing from the pixel below it, after the loop has changed data.
NearestTakesTopLeftWitness ==
  /\ loopSettings.sampling = "nearest" /\ Len(loopLog) >= 2
  /\ loopImage.height > 1
  /\ LET rec == loopLog[Len(loopLog)]
     IN /\ clippedBlock(rec) /\ rec.y = 0
        /\ loopSettings.pixelSize > 1
        /\ PixelAt(loopImage, rec.x, 1) # PixelAt(loopImage, rec.x, 0)
        /\ loopData # loopImage.data

\* The sum of channel k (1..4) of the source image over the pixels in cells.
channelSum(cells, k) ==
  SumOver([c \in cells |-> PixelAt(loopImage, c[1], c[2])[k]], cells)

\* C12: with sampling = averaged every channel of a block's representative,
\* alpha included, is the sum of that channel over the block's in-bounds source
\* pixels divided by their count and rounded half up; a block of one colour
\* gives that colour, and a full 2x2 block holding two 0s and two 255s in a
\* channel gives 128 in it.
AveragedIsRoundedMean ==
  \A n \in 1..Len(loopLog) :
    loopSettings.sampling = "averaged" =>
      LET rec == loopLog[n]
          cells == blockRect(loopImage.width, loopImage.height, rec.x, rec.y,
                             loopSettings.pixelSize)
          count == Cardinality(cells)
      IN \A k \in 1..4 :
           LET total == channelSum(cells, k)
           IN /\ 2 * count * rec.sample[k] <= 2 * total + count
              /\ 2 * total + count < 2 * count * (rec.sample[k] + 1)
              /\ (\A c \in cells :
                     PixelAt(loopImage, c[1], c[2])[k]
                       = PixelAt(loopImage, rec.x, rec.y)[k])
                   => rec.sample[k] = PixelAt(loopImage, rec.x, rec.y)[k]
              /\ (count = 4 /\ total = 2 * ByteMax
                   /\ \A c \in cells :
                        PixelAt(loopImage, c[1], c[2])[k] \in {0, ByteMax})
                   => rec.sample[k] = 128

\* A full 2x2 block of two white and two black opaque pixels has been averaged
\* to (128, 128, 128, 255), after a clipped block of one colour.
AveragedIsRoundedMeanWitness ==
  /\ loopSettings.sampling = "averaged" /\ loopSettings.pixelSize = 2
  /\ Len(loopLog) >= 2
  /\ loopLog[1].sample = <<128, 128, 128, ByteMax>>
  /\ Cardinality(blockRect(loopImage.width, loopImage.height,
                            loopLog[1].x, loopLog[1].y, 2)) = 4
  /\ clippedBlock(loopLog[2])
  /\ loopLog[2].sample = PixelAt(loopImage, loopLog[2].x, loopLog[2].y)

\* The byte indices of the pixels in cells.
bytesOf(cells) ==
  {(c[2] * loopImage.width + c[1]) * 4 + k : c \in cells, k \in 0..3}

\* C13: every index the sampler reads and every index the fill writes lies
\* inside the image; a block cut off by the right or bottom edge is sampled
\* and written over its in-bounds sub-rectangle only, and nothing else is
\* written.
AccessesInsideImage ==
  /\ \A n \in 1..Len(loopLog) :
        LET rec == loopLog[n]
            cells == blockRect(loopImage.width, loopImage.height, rec.x, rec.y,
                               loopSettings.pixelSize)
        IN /\ rec.x < loopImage.width /\ rec.y < loopImage.height
           /\ rec.reads \subseteq DOMAIN loopImage.data
           /\ rec.writes \subseteq DOMAIN loopImage.data
           /\ rec.writes = bytesOf(cells)
           /\ IF loopSettings.sampling = "nearest"
              THEN rec.reads = bytesOf({<<rec.x, rec.y>>})
              ELSE rec.reads = bytesOf(cells)
  /\ \A i \in DOMAIN loopData :
        (\A n \in 1..Len(loopLog) : i \notin loopLog[n].writes)
          => loopData[i] = loopImage.data[i]

\* A block cut off by the right edge and by the bottom edge has been averaged
\* and filled, with other blocks still to come.
AccessesInsideImageWitness ==
  /\ loopSettings.sampling = "averaged" /\ loopSettings.pixelSize > 1
  /\ \E n \in 1..Len(loopLog) :
        /\ loopLog[n].x + loopSettings.pixelSize > loopImage.width
        /\ Cardinality(loopLog[n].writes) < 4 * loopSettings.pixelSize * loopSettings.pixelSize
        /\ loopLog[n].reads = loopLog[n].writes
  /\ loopData # loopImage.data
  /\ loopPc = "done"

\* C14: the alpha stored at every pixel of a block is the alpha the sampler
\* returned for that block, whatever the colour effect and the palette size.
AlphaPassesThrough ==
  \A n \in 1..Len(loopLog) :
    LET rec == loopLog[n]
    IN /\ \A c \in blockRect(loopImage.width, loopImage.height, rec.x, rec.y,
                              loopSettings.pixelSize) :
            loopData[(c[2] * loopImage.width + c[1]) * 4 + 3] = rec.sample[4]
       /\ loopSettings.sampling = "nearest"
            => rec.sample[4] = PixelAt(loopImage, rec.x, rec.y)[4]

\* A block of several pixels whose sampled alpha is neither 0 nor 255 has been
\* written with an effect and a reduced palette that changed its colour.
AlphaPassesThroughWitness ==
  /\ loopSettings.colorEffect # "normal" /\ loopSettings.paletteSize < Levels256
  /\ loopSettings.pixelSize > 1
  /\ \E n \in 1..Len(loopLog) :
        LET rec == loopLog[n]
        IN /\ rec.sample[4] \notin {0, ByteMax}
           /\ Cardinality(rec.writes) > 4
           /\ loopData[(rec.y * loopImage.width + rec.x) * 4 + 3] = rec.sample[4]
           /\ loopData[(rec.y * loopImage.width + rec.x) * 4] # rec.sample[1]

\* The output of the effect colorEffect names on (r, g, b), the effect being
\* skipped when the fields it needs are unset.
effectOutput(r, g, b) ==
  CASE loopSettings.colorEffect = "grayscale" -> applyGrayscale(r, g, b)
    [] loopSettings.colorEffect = "duotone" ->
         IF loopSettings.duotoneColor1 # <<>> /\ loopSettings.duotoneColor2 # <<>>
         THEN applyDuotone(r, g, b, loopSettings.duotoneColor1,
                           loopSettings.duotoneColor2)
         ELSE <<Fx(r), Fx(g), Fx(b)>>
    [] loopSettings.colorEffect = "posterize" ->
         IF loopSettings.posterizeLevels # 0
         THEN applyPosterize(r, g, b, loopSettings.posterizeLevels)
         ELSE <<Fx(r), Fx(g), Fx(b)>>
    [] OTHER -> <<Fx(r), Fx(g), Fx(b)>>

\* C15: for every block and every colorEffect, in pixelateImage and in
\* exportImage, the colour written is reducePalette applied to the output of
\* the colour effect on the block's representative.
PaletteAfterEffect ==
  \A n \in 1..Len(loopLog) :
    LET rec == loopLog[n]
        fx == effectOutput(rec.sample[1], rec.sample[2], rec.sample[3])
        idx == (rec.y * loopImage.width + rec.x) * 4
    IN /\ rec.final = reducePalette(fx[1], fx[2], fx[3], loopSettings.paletteSize)
       /\ \A k \in 0..2 : loopData[idx + k] = ToUint8Clamped(rec.final[k + 1])

\* exportImage has written a block whose effect output the reduced palette
\* changed, under an effect other than normal.
PaletteAfterEffectWitness ==
  /\ loopKind = "exportImage" /\ loopSettings.colorEffect = "grayscale"
  /\ loopSettings.paletteSize < Levels256
  /\ \E n \in 1..Len(loopLog) :
        LET rec == loopLog[n]
            fx == applyGrayscale(rec.sample[1], rec.sample[2], rec.sample[3])
        IN /\ rec.final # fx
           /\ fx # <<Fx(rec.sample[1]), Fx(rec.sample[2]), Fx(rec.sample[3])>>
           /\ loopData[(rec.y * loopImage.width + rec.x) * 4]
                = ToUint8Clamped(rec.final[1])

\* The number of blocks along an axis of length size.
blocksAlong(size, blockSize) == (size + blockSize - 1) \div blockSize

\* What is left of the loop, as a number: the rows still to start, each
\* weighing more than a row can take steps, and what is left of the row.
loopMeasure ==
  LET weight == loopImage.width + 3
  IN IF loopPc = "y-test" THEN 1 + Max(0, loopImage.height - loopY) * weight
     ELSE IF loopPc = "x-test"
     THEN 2 + (loopImage.height - loopY - 1) * weight
            + Max(0, loopImage.width - loopX)
     ELSE 0

\* C24: for every image and every pixelSize >= 1 the block loop of
\* pixelateImage and of exportImage visits each block origin, the multiples of
\* pixelSize below width and height, exactly once in row-major order, and
\* terminates: until it is done a step is possible (the body of the x loop is
\* assignments only and runs whenever its test passes), and every step brings
\* it closer to the end.
VisitsOriginsInRowMajorOrder ==
  /\ [](LET cols == blocksAlong(loopImage.width, loopSettings.pixelSize)
            rows == blocksAlong(loopImage.height, loopSettings.pixelSize)
        IN /\ Len(loopLog) <= cols * rows
           /\ \A n \in 1..Len(loopLog) :
                /\ loopLog[n].x = ((n - 1) % cols) * loopSettings.pixelSize
                /\ loopLog[n].y = ((n - 1) \div cols) * loopSettings.pixelSize
           /\ loopPc = "done" => Len(loopLog) = cols * rows
           /\ loopPc = "y-test" => ENABLED (LoopEnterRow \/ LoopExit)
           /\ loopPc = "x-test" =>
                \/ loopX >= loopImage.width /\ ENABLED LoopNextRow
                \/ loopX < loopImage.width
                     /\ loopKind \in {"pixelateImage", "exportImage"}
           /\ loopMeasure >= 0)
  /\ [][loopMeasure' < loopMeasure]_vars

\* The loop has ended after several rows of several blocks, the last block of
\* each row cut off by the right edge.
VisitsOriginsInRowMajorOrderWitness ==
  /\ loopPc = "done" /\ loopSettings.pixelSize > 1
  /\ loopImage.width % loopSettings.pixelSize # 0
  /\ Len(loopLog) >= 2
  /\ loopLog[Len(loopLog)].x > 0
  /\ loopLog[1] # loopLog[Len(loopLog)]

\* The block of log record rec transformed from the untouched image: what a
\* loop reading from a pristine copy would store for it.
pristineBlock(rec) ==
  IF loopKind = "pixelateImage"
  THEN pixelateBlock(loopImage.data, loopImage.width, loopImage.height, rec.x, rec.y,
                     loopSettings)
  ELSE exportBlock(loopImage.data, loopImage.width, loopImage.height, rec.x, rec.y,
                   loopSettings)

\* The representative of log record rec sampled from the untouched image.
pristineSample(rec) ==
  IF loopKind = "pixelateImage"
  THEN sampleBlock(loopImage.data, loopImage.width, loopImage.height, rec.x, rec.y,
                   loopSettings)
  ELSE exportSampleBlock(loopImage.data, loopImage.width, loopImage.height, rec.x,
                         rec.y, loopSettings)

\* C25: the loop overwrites the image data in place, and still every block's
\* representative is computed from original values: no block reads an index
\* an earlier block wrote, no index is written by two blocks, at the end every
\* index has been written, and the data equal what the same transform gives
\* block by block from a pristine copy of the input.
InPlaceEqualsPristineCopy ==
  /\ \A n \in 1..Len(loopLog) :
       /\ loopLog[n].sample = pristineSample(loopLog[n])
       /\ \A m \in 1..(n - 1) :
            /\ loopLog[n].reads \cap loopLog[m].writes = {}
            /\ loopLog[n].writes \cap loopLog[m].writes = {}
       /\ \E block \in {pristineBlock(loopLog[n])} :
            \A i \in loopLog[n].writes : loopData[i] = block[i]
  /\ \A i \in DOMAIN loopData :
       (\A n \in 1..Len(loopLog) : i \notin loopLog[n].writes) =>
         loopData[i] = loopImage.data[i]
  /\ loopPc = "done" =>
       UNION {loopLog[n].writes : n \in 1..Len(loopLog)} = DOMAIN loopImage.data

\* An averaged run over several blocks has ended, and a block after the first
\* was changed by it: its pixels were read after earlier blocks were stored.
InPlaceEqualsPristineCopyWitness ==
  /\ loopPc = "done" /\ loopSettings.sampling = "averaged"
  /\ loopSettings.pixelSize > 1
  /\ \E n \in 2..Len(loopLog) : \E i \in loopLog[n].writes :
       /\ loopData[i] # loopImage.data[i]
       /\ Cardinality(loopLog[n].reads) > 4

\* colorEffect names an effect whose optional fields are not all set.
effectFieldsUnset(s) ==
  \/ /\ s.colorEffect = "duotone"
     /\ ~TruthyColor(s.duotoneColor1) \/ ~TruthyColor(s.duotoneColor2)
  \/ s.colorEffect = "posterize" /\ ~TruthyNumber(s.posterizeLevels)

\* What the loop of the run's kind gives for the whole image under settings s.
loopOutput(s) ==
  IF loopKind = "pixelateImage"
  THEN pixelateLoop(loopImage.data, loopImage.width, loopImage.height, 0, 0, s)
  ELSE exportLoop(loopImage.data, loopImage.width, loopImage.height, 0, 0, s)

\* C30: with colorEffect = duotone and duotoneColor1 or duotoneColor2 unset,
\* or colorEffect = posterize and posterizeLevels unset, the engine applies no
\* colour effect: every block's colour is the palette reduction of its
\* sample, and the finished output equals the output for colorEffect = normal
\* with the same remaining settings.
UnsetEffectFieldsMeanNormal ==
  effectFieldsUnset(loopSettings) =>
    /\ \A n \in 1..Len(loopLog) :
         loopLog[n].final
           = reducePalette(Fx(loopLog[n].sample[1]), Fx(loopLog[n].sample[2]),
                           Fx(loopLog[n].sample[3]), loopSettings.paletteSize)
    /\ loopPc = "done" =>
         loopData = loopOutput([loopSettings EXCEPT !.colorEffect = "normal"])

\* A run with an effect selected and a field of it unset has ended on an
\* image the effect would have changed had its fields been set.
UnsetEffectFieldsMeanNormalWitness ==
  /\ loopPc = "done" /\ effectFieldsUnset(loopSettings)
  /\ Len(loopLog) >= 1
  /\ loopData # loopOutput([loopSettings EXCEPT !.duotoneColor1 = Hex1a1a2e,
                                                !.duotoneColor2 = Hexff006e,
                                                !.posterizeLevels = 4])

(***************************************************************************)
(* Properties of the grid overlay (Spec)                                   *)
(***************************************************************************)
\* C16: with showGrid set, the pixelateImage output differs from the output
\* for the same source and settings with showGrid unset only at pixels whose x
\* or y coordinate is a multiple of pixelSize.
GridOnlyOnMultiples ==
  (Fulfilled /\ callKind = "pixelateImage" /\ callSettings.showGrid)
    => LET plain == pixelateImageResult(file, [callSettings EXCEPT !.showGrid = FALSE])
       IN \A x \in 0..(file.width - 1), y \in 0..(file.height - 1) :
            (x % callSettings.pixelSize # 0 /\ y % callSettings.pixelSize # 0)
              => PixelAt(promise.value, x, y) = PixelAt(plain, x, y)

\* A pixel after n strokes have been composited over it.
RECURSIVE strokeTimes(_, _)
strokeTimes(px, n) ==
  IF n = 0 THEN px
  ELSE strokeTimes(<<strokeOver(px, 0), strokeOver(px, 1), strokeOver(px, 2),
                     strokeOver(px, 3)>>, n - 1)

\* The number of grid lines, one at every multiple of blockSize in 0..size,
\* whose stroke covers the pixel row or column c.
linesOver(c, size, blockSize) ==
  Cardinality({k \in 0..size : k % blockSize = 0 /\ (c = k \/ c = k - 1)})

isPrefix(s, t) == Len(s) <= Len(t) /\ s = SubSeq(t, 1, Len(s))

\* C22: in every exportImage call the stages run in the order decode, block
\* pixelation, grid (if requested) at native resolution, upscale, watermark,
\* encode; the watermark is stamped exactly once, after scaling and as the last
\* change to the buffer before encoding; pixelateImage never stamps one.
StagesInOrder ==
  /\ callKind = "exportImage" =>
        /\ isPrefix(stageLog,
                    <<"decode", "blocks">>
                      \o (IF callSettings.showGrid THEN <<"grid">> ELSE <<>>)
                      \o <<"scale", "watermark", "encode">>)
        /\ pc = "gridded" =>
              /\ tempCanvas.width = file.width /\ tempCanvas.height = file.height
              /\ canvas.data = blankCanvas(canvas.width, canvas.height).data
        /\ pc \in {"loading", "decoded", "pixelated", "gridded", "scaled"}
              => canvas.text = <<>>
        /\ pc = "watermarked" =>
              /\ canvas.text = <<addWatermark(file.width * callScale,
                                              file.height * callScale)>>
              /\ canvas.data = scaleUp(tempCanvas, canvas.width, canvas.height, callScale)
        /\ Fulfilled =>
              /\ promise.value = toDataURL(canvas)
              /\ Len(promise.value.text) = 1
              /\ Len(SelectSeq(stageLog, LAMBDA st : st = "watermark")) = 1
  /\ callKind = "pixelateImage" =>
        /\ canvas.text = <<>>
        /\ \A n \in 1..Len(stageLog) : stageLog[n] # "watermark"
        /\ Fulfilled => promise.value.text = <<>>

\* An export with grid at a scale above 1 has resolved: the watermark was
\* stamped once, on the scaled canvas.
StagesInOrderWitness ==
  /\ Fulfilled /\ callKind = "exportImage" /\ callScale > 1
  /\ callSettings.showGrid
  /\ stageLog = <<"decode", "blocks", "grid", "scale", "watermark", "encode">>
  /\ promise.value.text = <<addWatermark(promise.value.width, promise.value.height)>>
  /\ promise.value.width = file.width * callScale

(***************************************************************************)
(* Properties of the colour effects (SpecEffects)                          *)
(***************************************************************************)
\* C17: with color1 = #000000 and color2 = #ffffff applyDuotone returns what
\* applyGrayscale returns for the same (r, g, b); the grey (128, 128, 128) maps
\* to (128, 128, 128).
DuotoneBlackWhiteIsGrayscale ==
  (fxColors = <<Hex000000, Hexffffff>> /\ fxDuo # <<>>)
    => /\ fxGray # <<>> => fxDuo[1] = fxGray[1]
       /\ fxIn = <<128, 128, 128>> => fxDuo[1] = <<Fx(128), Fx(128), Fx(128)>>

\* Both effects have been applied to a colour that is not a grey and whose
\* weighted sum is not an integer, with the black and white pair.
DuotoneBlackWhiteIsGrayscaleWitness ==
  /\ fxColors = <<Hex000000, Hexffffff>>
  /\ fxGray # <<>> /\ fxDuo # <<>>
  /\ fxIn[1] # fxIn[2]
  /\ Luma1000(fxIn[1], fxIn[2], fxIn[3]) % 1000 > 500
  /\ fxDuo[1] # <<Fx(fxIn[1]), Fx(fxIn[2]), Fx(fxIn[3])>>

\* C20: for every channel value c in 0..255 and every levels in 2..8, with
\* step = 256 / levels, applyPosterize returns a value in [0, 255] that lies in
\* the same bucket as c: floor(result / step) = floor(c / step).
PosterizeStaysInBucket ==
  fxPost # <<>>
    => \A k \in 1..3 :
         /\ 0 <= fxPost[1][k] /\ fxPost[1][k] <= Fx(ByteMax)
         /\ Floor(fxPost[1][k] * fxLevels, Levels256 * Q)
              = Floor(fxIn[k] * fxLevels, Levels256)

(***************************************************************************)
(* Properties of the controls (SpecControls)                               *)
(***************************************************************************)
\* C18: in every settings value reached from the default settings through the
\* controls and presets and handed to pixelateImage, colorEffect = duotone
\* implies duotoneColor1 and duotoneColor2 are both set, and colorEffect =
\* posterize implies posterizeLevels is set.
EffectFieldsSet ==
  \A i \in 1..Len(calls) :
    LET s == calls[i].settings
    IN /\ s.colorEffect = "duotone"
            => (s.duotoneColor1 # <<>> /\ s.duotoneColor2 # <<>>)
       /\ s.colorEffect = "posterize" => s.posterizeLevels # 0

(***************************************************************************)
(* Properties of the shape setting (SpecCalls)                             *)
(***************************************************************************)
\* type PixelShape.
PixelShapes == {"square", "circle", "hex", "isometric"}

WatermarkMetrics ==
  markRun # <<>>
    => LET W == markWidth * markScale
           H == markHeight * markScale
           run == markRun[1]
           padding2 == 2 * W - run.x2
       IN /\ run.fontSize >= 12 /\ 50 * run.fontSize >= W - 49
          /\ (run.fontSize = 12 \/ 50 * run.fontSize <= W)
          /\ padding2 >= 2 * 8 /\ padding2 >= run.fontSize
          /\ (padding2 = 2 * 8 \/ padding2 = run.fontSize)
          /\ 2 * H - run.y2 = padding2

\* A watermark has been placed on a scaled canvas wide enough for a font size
\* above 16 and odd, so that the padding is fontSize / 2 and ends in .5, while
\* the native width alone gives the font size 12.
WatermarkMetricsWitness ==
  /\ markRun # <<>> /\ markScale > 1
  /\ markWidth < 600
  /\ markRun[1].fontSize > 16 /\ markRun[1].fontSize % 2 = 1
  /\ 2 * markWidth * markScale - markRun[1].x2 = markRun[1].fontSize

(***************************************************************************)
(* Properties of the debounced pixel size (SpecDebounce)                   *)
(***************************************************************************)
\* C26: when the debounce timer of handlePixelSizeChange fires, only
\* settings.pixelSize changes: every other field keeps the value the controls
\* and presets applied since the call have given it.
DebounceChangesPixelSizeOnly ==
  [][(debounceTimer # <<>> /\ debounceTimer' = <<>>)
       => settings' = [settings EXCEPT !.pixelSize = debounceTimer[1].value]]_vars

(***************************************************************************)
(* Properties of the processing flag (SpecPreview)                         *)
(***************************************************************************)
\* C27: isProcessing is true in every state in which a call started by the
\* window is still in flight, and false once all of them have settled.
ProcessingWhileInFlight ==
  isProcessing = (\E i \in 1..Len(calls) : calls[i].state = "pending")

(***************************************************************************)
(* Properties of the custom presets (SpecPresets)                          *)
(***************************************************************************)
\* How often the preset called name is in the stored list.
storedCount(name) ==
  Cardinality({i \in 1..Len(presetStorage) : presetStorage[i].name = name})

\* C28: after any interleaving of saves and deletes made through
\* PixelControlsAdvanced and PresetBrowser the stored list holds every custom
\* preset that was saved and not deleted since, a delete having removed the one
\* preset selected and no other.
StoredPresetsAreKept ==
  \A name \in PresetNames : storedCount(name) >= presetsKept[name]

====
